---------------------------- MODULE Spec2Model ----------------------------
(***************************************************************************)
(* Model of the Auroville event search pipeline (src/auroville_agent.py):  *)
(* retrieval hits are de-duplicated, past events are dropped, the rest is  *)
(* classified, sorted by parsed start time, merged by contact and written  *)
(* to the process-wide EVENT_DATA_STORE under the keys rendered as links.  *)
(*                                                                         *)
(* Text is modelled as TLA+ strings, read character by character.  TLA+    *)
(* strings are ASCII, so the two Unicode dashes the code normalises are    *)
(* written as the characters EnDash and EmDash below.                      *)
(***************************************************************************)
EXTENDS Integers, Sequences, FiniteSets, TLC

VARIABLES
    retriever,          \* TRUE once the module-level retriever is set
    EVENT_DATA_STORE,   \* the process-wide cache: reference key -> merged document
    \* the last call of search_auroville_events: its retrieval result, its
    \* clock reading, and its locals as they stand when it returns
    docs, now, filtered, category_buckets, sorted_group_items, out_lines,
    total_groups,
    result,             \* the text the last call returned (its first line)
    \* the last request of streaming_chat (src/app.py): its session and
    \* stripped question, the route it logged and the messages it yielded
    request, route, updated_history,
    \* the last click on the page: the link's target and the text sent for it
    href, textToSend,
    \* the session of the last call of the search tool, and the lines listed
    \* since: those of the call and of the daily-events requests after it
    last_search,
    \* the filters of the last call of search_auroville_events: its arguments
    \* filter_date and filter_day ("" for None) and the dict built from them
    filter_date, filter_day, simple_filters,
    \* its argument filter_location and the filter it hands to retrieval
    filter_location, chroma_filter,
    \* a call of parse_time_for_sort on its own: its argument and what it
    \* returned (<<>> before it returns)
    raw_time, sort_time,
    \* a call of parse_date_to_iso_range (src/vector_db.py) on its own: its
    \* argument and the pair it returned (<<>> before it returns)
    range_arg, iso_range,
    \* the exception the last call of search_auroville_events let through
    \* ("" when it returned)
    raised,
    \* a call of format_event_card and of format_summary_line on its own:
    \* the arguments and the texts returned ("" before they return)
    doc_metadata, doc_content, card_text, summary_text,
    \* one run of streaming_chat as a generator: its history argument, the
    \* events its stream still holds, its position, its local response_text,
    \* the histories it yielded, and the rows of the chats table (src/db.py)
    history, stream_events, pc, response_text, yields, chats,
    \* what load_chat_history returned (<<>> before it returns)
    gradio_history

vars == <<retriever, EVENT_DATA_STORE, docs, now, filtered, category_buckets,
          sorted_group_items, out_lines, total_groups, result,
          request, route, updated_history, href, textToSend, last_search,
          filter_date, filter_day, simple_filters, filter_location, chroma_filter,
          raw_time, sort_time, range_arg, iso_range, raised,
          doc_metadata, doc_content, card_text, summary_text,
          history, stream_events, pc, response_text, yields, chats,
          gradio_history>>

-----------------------------------------------------------------------------
(* Text primitives (Python str methods and the re character classes)       *)

EnDash == "^"
EmDash == "~"

Ch(s, i) == SubSeq(s, i, i)

RECURSIVE Join(_, _)
Join(parts, sep) ==
    IF parts = <<>> THEN ""
    ELSE IF Len(parts) = 1 THEN parts[1]
    ELSE parts[1] \o sep \o Join(Tail(parts), sep)

LowerLetters == "abcdefghijklmnopqrstuvwxyz"
UpperLetters == "ABCDEFGHIJKLMNOPQRSTUVWXYZ"

IsDigit(c) == \E i \in 1..10 : Ch("0123456789", i) = c
DigitVal(c) == (CHOOSE i \in 1..10 : Ch("0123456789", i) = c) - 1
IsSpace(c) == c \in {" ", "\t", "\n", "\r"}
IsWordChar(c) ==
    \/ IsDigit(c)
    \/ c = "_"
    \/ \E i \in 1..26 : Ch(LowerLetters, i) = c \/ Ch(UpperLetters, i) = c

UpperCh(c) ==
    IF \E i \in 1..26 : Ch(LowerLetters, i) = c
    THEN Ch(UpperLetters, CHOOSE i \in 1..26 : Ch(LowerLetters, i) = c)
    ELSE c

LowerCh(c) ==
    IF \E i \in 1..26 : Ch(UpperLetters, i) = c
    THEN Ch(LowerLetters, CHOOSE i \in 1..26 : Ch(UpperLetters, i) = c)
    ELSE c

RECURSIVE MapChars(_, _)
MapChars(s, upper) ==
    IF s = "" THEN ""
    ELSE (IF upper THEN UpperCh(Ch(s, 1)) ELSE LowerCh(Ch(s, 1)))
         \o MapChars(Tail(s), upper)

Upper(s) == MapChars(s, TRUE)
Lower(s) == MapChars(s, FALSE)

RECURSIVE LStrip(_)
LStrip(s) == IF s # "" /\ IsSpace(Ch(s, 1)) THEN LStrip(Tail(s)) ELSE s

RECURSIVE RStrip(_)
RStrip(s) ==
    IF s # "" /\ IsSpace(Ch(s, Len(s)))
    THEN RStrip(SubSeq(s, 1, Len(s) - 1))
    ELSE s

Strip(s) == RStrip(LStrip(s))

\* s[i..] starts with p
StartsAt(s, i, p) == i + Len(p) - 1 <= Len(s) /\ SubSeq(s, i, i + Len(p) - 1) = p

\* Python's  sub in s
Contains(sub, s) == \E i \in 1..(Len(s) + 1) : StartsAt(s, i, sub)

\* ''.join(filter(str.isdigit, s))
RECURSIVE DigitsOnly(_)
DigitsOnly(s) ==
    IF s = "" THEN ""
    ELSE (IF IsDigit(Ch(s, 1)) THEN Ch(s, 1) ELSE "") \o DigitsOnly(Tail(s))

\* s.replace(EmDash, "-").replace(EnDash, "-")
RECURSIVE ReplaceDashes(_)
ReplaceDashes(s) ==
    IF s = "" THEN ""
    ELSE (IF Ch(s, 1) \in {EnDash, EmDash} THEN "-" ELSE Ch(s, 1))
         \o ReplaceDashes(Tail(s))

\* str(n) for a natural number
RECURSIVE IntToStr(_)
IntToStr(n) ==
    IF n < 10 THEN Ch("0123456789", n + 1)
    ELSE IntToStr(n \div 10) \o Ch("0123456789", (n % 10) + 1)

\* int(text) for a run of digits
RECURSIVE StrToInt(_)
StrToInt(s) ==
    IF s = "" THEN 0
    ELSE StrToInt(SubSeq(s, 1, Len(s) - 1)) * 10 + DigitVal(Ch(s, Len(s)))

-----------------------------------------------------------------------------
(* datetime.time values: <<hour, minute, second, microsecond>>             *)

SentinelTime == <<23, 59, 59, 0>>

TimeLT(a, b) ==
    \/ a[1] < b[1]
    \/ a[1] = b[1] /\ a[2] < b[2]
    \/ a[1] = b[1] /\ a[2] = b[2] /\ a[3] < b[3]
    \/ a[1] = b[1] /\ a[2] = b[2] /\ a[3] = b[3] /\ a[4] < b[4]

-----------------------------------------------------------------------------
(* parse_time_for_sort                                                     *)

\* the least element of a non-empty set of positions
LeftMost(S) == CHOOSE i \in S : \A k \in S : i <= k

IsDigitAt(s, i) == i <= Len(s) /\ IsDigit(Ch(s, i))

\* position after  \s*  matched from position i
RECURSIVE SkipSpaces(_, _)
SkipSpaces(s, i) ==
    IF i <= Len(s) /\ IsSpace(Ch(s, i)) THEN SkipSpaces(s, i + 1) ELSE i

\* the groups of  (\d{1,2})(?::(\d{2}))?  matched at position i with the
\* hour digits ending before j: g1, g2 ("" when the group did not take
\* part) and the next position
NumberMatch(s, i, j) ==
    IF /\ j + 2 <= Len(s)
       /\ Ch(s, j) = ":"
       /\ IsDigit(Ch(s, j + 1))
       /\ IsDigit(Ch(s, j + 2))
    THEN [g1 |-> SubSeq(s, i, j - 1), g2 |-> SubSeq(s, j + 1, j + 2), end |-> j + 3]
    ELSE [g1 |-> SubSeq(s, i, j - 1), g2 |-> "", end |-> j]

\* the match of  (\d{1,2})(?::(\d{2}))?  at position i, where Ch(s, i) is a digit
NumberAt(s, i) == NumberMatch(s, i, IF IsDigitAt(s, i + 1) THEN i + 2 ELSE i + 1)

\* the group (AM|PM) at position i, "" when it does not match
MeridianAt(s, i) ==
    IF StartsAt(s, i, "AM") THEN "AM"
    ELSE IF StartsAt(s, i, "PM") THEN "PM"
    ELSE ""

\* a token made of the number match n, the position w after the spaces that
\* follow it, and the meridian found there
TokenWith(n, w, mer) ==
    [g1 |-> n.g1, g2 |-> n.g2, g3 |-> mer, end |-> IF mer # "" THEN w + 2 ELSE w]

\* \s*(AM|PM)?  after the number match n
TokenFrom(s, n) ==
    LET w == SkipSpaces(s, n.end) IN TokenWith(n, w, MeridianAt(s, w))

\* the match of token_pattern at position i, where Ch(s, i) is a digit
TokenAt(s, i) == TokenFrom(s, NumberAt(s, i))

\* list(token_pattern.finditer(s)), scanning from position i
RECURSIVE Tokens(_, _)
Tokens(s, i) ==
    IF i > Len(s) THEN <<>>
    ELSE IF IsDigit(Ch(s, i))
         THEN <<TokenAt(s, i)>> \o Tokens(s, TokenAt(s, i).end)
         ELSE Tokens(s, i + 1)

NoMatch == [ok |-> FALSE]

\* the range pattern "7-9 AM" from its second number, at position j
TrailingEnd(s, a, j) ==
    IF IsDigitAt(s, j) /\ MeridianAt(s, SkipSpaces(s, NumberAt(s, j).end)) # ""
    THEN [ok |-> TRUE, g1 |-> a.g1, g2 |-> a.g2,
          g5 |-> MeridianAt(s, SkipSpaces(s, NumberAt(s, j).end))]
    ELSE NoMatch

\* the range pattern after its first number a
TrailingRest(s, a) ==
    IF a.end <= Len(s) /\ Ch(s, a.end) = "-"
    THEN TrailingEnd(s, a, SkipSpaces(s, a.end + 1))
    ELSE NoMatch

\* the match of the range pattern "7-9 AM" at position i
TrailingAt(s, i) ==
    IF IsDigitAt(s, i) THEN TrailingRest(s, NumberAt(s, i)) ELSE NoMatch

\* re.search of the range pattern: the leftmost match
TrailingSearch(s) ==
    LET starts == {i \in 1..Len(s) : TrailingAt(s, i).ok}
    IN  IF starts # {} THEN TrailingAt(s, LeftMost(starts)) ELSE NoMatch

\* \b(AM|PM)\b matches at position i
WordMeridianAt(a, i) ==
    /\ MeridianAt(a, i) # ""
    /\ (i = 1 \/ ~IsWordChar(Ch(a, i - 1)))
    /\ (i + 2 > Len(a) \/ ~IsWordChar(Ch(a, i + 2)))

\* re.search(r'\b(AM|PM)\b', after): the leftmost match, "" when there is none
MeridianAfter(a) ==
    LET starts == {i \in 1..Len(a) : WordMeridianAt(a, i)}
    IN  IF starts # {} THEN MeridianAt(a, LeftMost(starts)) ELSE ""

\* re.search(r'\bANYTIME\b', s)
HasAnytime(s) ==
    \E i \in 1..Len(s) :
        /\ StartsAt(s, i, "ANYTIME")
        /\ (i = 1 \/ ~IsWordChar(Ch(s, i - 1)))
        /\ (i + 7 > Len(s) \/ ~IsWordChar(Ch(s, i + 7)))

\* the 12-hour adjustment of lines 53-56 and 81-84
Hour24(h, mer) ==
    IF mer = "PM" /\ h # 12 THEN h + 12
    ELSE IF mer = "AM" /\ h = 12 THEN 0
    ELSE h

\* datetime.time(h, m) raises ValueError outside 0..23 / 0..59
ValueError == <<-1, -1, -1, -1>>
MakeTime(h, m) == IF h \in 0..23 /\ m \in 0..59 THEN <<h, m, 0, 0>> ELSE ValueError

\* int(group) if group else 0
MinuteOf(g2) == IF g2 # "" THEN StrToInt(g2) ELSE 0

\* lines 49-58: the time of a match of the range pattern
TrailingTime(trailing) ==
    IF trailing.ok
    THEN MakeTime(Hour24(StrToInt(trailing.g1), trailing.g5), MinuteOf(trailing.g2))
    ELSE SentinelTime

\* the time built without the sanity clamp
ClampedTime_Unclamped(hour, minute) == MakeTime(hour, minute)

\* the clamp with the hour tested against 24
ClampedTime_OffByOne(hour, minute) ==
    IF hour < 0 \/ hour > 24 THEN SentinelTime
    ELSE MakeTime(hour, IF minute < 0 \/ minute > 59 THEN 0 ELSE minute)

\* lines 86-92: the sanity clamp
ClampedTime(hour, minute) ==
    IF hour < 0 \/ hour > 23 THEN SentinelTime
    ELSE MakeTime(hour, IF minute < 0 \/ minute > 59 THEN 0 ELSE minute)

\* lines 78-92 for the chosen token and its meridian
ChosenTime(chosen, mer) ==
    ClampedTime(Hour24(StrToInt(chosen.g1), mer), MinuteOf(chosen.g2))

\* s[end : end + 10], e being the position after the first token
After(s, e) == SubSeq(s, e, IF e + 9 <= Len(s) THEN e + 9 ELSE Len(s))

\* lines 60-76: the first token with AM/PM, else the first token with the
\* meridian looked up in the window after it; withMer holds the indices of
\* the tokens that carry AM/PM
ChooseToken(s, tokens, withMer) ==
    IF withMer # {}
    THEN ChosenTime(tokens[LeftMost(withMer)], tokens[LeftMost(withMer)].g3)
    ELSE ChosenTime(tokens[1], MeridianAfter(After(s, tokens[1].end)))

\* lines 45-92 for the token list
ParseTokens(s, tokens) ==
    IF tokens = <<>> THEN TrailingTime(TrailingSearch(s))
    ELSE ChooseToken(s, tokens, {i \in 1..Len(tokens) : tokens[i].g3 # ""})

\* lines 37-92 for the normalised text s
ParseNormalized(s) ==
    IF HasAnytime(s) THEN SentinelTime ELSE ParseTokens(s, Tokens(s, 1))

parse_time_for_sort(raw) ==
    IF raw = "" THEN SentinelTime
    ELSE ParseNormalized(Upper(Strip(ReplaceDashes(raw))))

-----------------------------------------------------------------------------
(* datetime.strptime(text, fmt).date() for the directives the code uses.   *)
(* A date is the number year*10000 + month*100 + day; NoDate stands for    *)
(* the ValueError that the callers catch.                                  *)

NoDate == 0
MakeDate(y, m, d) == y * 10000 + m * 100 + d

MonthNames == <<"january", "february", "march", "april", "may", "june", "july",
                "august", "september", "october", "november", "december">>
MonthAbbrs == <<"jan", "feb", "mar", "apr", "may", "jun", "jul", "aug", "sep",
                "oct", "nov", "dec">>

DaysInMonth(y, m) ==
    IF m = 2 THEN (IF (y % 4 = 0 /\ y % 100 # 0) \/ y % 400 = 0 THEN 29 ELSE 28)
    ELSE IF m \in {4, 6, 9, 11} THEN 30
    ELSE 31

\* the character at position i, "" past the end
CharAt(s, i) == IF i <= Len(s) THEN Ch(s, i) ELSE ""

\* the result of a directive that matched the value val up to position end
Matched(val, end) == [ok |-> TRUE, val |-> val, end |-> end]

\* a month name at position i, ms being the months whose name starts there
MonthMatch(names, i, ms) ==
    IF ms = {} THEN NoMatch
    ELSE Matched(CHOOSE m \in ms : TRUE, i + Len(names[CHOOSE m \in ms : TRUE]))

\* %B and %b: a month name at position i, any letter case
MonthAt(names, s, i) ==
    MonthMatch(names, i, {m \in 1..12 : StartsAt(Lower(s), i, names[m])})

\* %d: 3[0-1]|[1-2]\d|0[1-9]|[1-9]| [1-9]  on the characters c1 c2 at i
DayMatch(i, c1, c2) ==
    IF \/ c1 = "3" /\ c2 \in {"0", "1"}
       \/ c1 \in {"1", "2"} /\ c2 # "" /\ IsDigit(c2)
       \/ c1 = "0" /\ c2 # "" /\ IsDigit(c2) /\ c2 # "0"
    THEN Matched(StrToInt(c1 \o c2), i + 2)
    ELSE IF c1 # "" /\ IsDigit(c1) /\ c1 # "0"
    THEN Matched(StrToInt(c1), i + 1)
    ELSE IF c1 = " " /\ c2 # "" /\ IsDigit(c2) /\ c2 # "0"
    THEN Matched(StrToInt(c2), i + 2)
    ELSE NoMatch

DayAt(s, i) == DayMatch(i, CharAt(s, i), CharAt(s, i + 1))

\* %m: 1[0-2]|0[1-9]|[1-9]  on the characters c1 c2 at i
MonthNumMatch(i, c1, c2) ==
    IF \/ c1 = "1" /\ c2 \in {"0", "1", "2"}
       \/ c1 = "0" /\ c2 # "" /\ IsDigit(c2) /\ c2 # "0"
    THEN Matched(StrToInt(c1 \o c2), i + 2)
    ELSE IF c1 # "" /\ IsDigit(c1) /\ c1 # "0"
    THEN Matched(StrToInt(c1), i + 1)
    ELSE NoMatch

MonthNumAt(s, i) == MonthNumMatch(i, CharAt(s, i), CharAt(s, i + 1))

\* %Y (n = 4) and %y (n = 2): exactly n digits
DigitsAt(s, i, n) ==
    IF i + n - 1 <= Len(s) /\ \A k \in i..(i + n - 1) : IsDigit(Ch(s, k))
    THEN Matched(StrToInt(SubSeq(s, i, i + n - 1)), i + n)
    ELSE NoMatch

\* the match of the directive %dir at position si of the text
DirectiveAt(dir, s, si) ==
    CASE dir = "B" -> MonthAt(MonthNames, s, si)
      [] dir = "b" -> MonthAt(MonthAbbrs, s, si)
      [] dir = "d" -> DayAt(s, si)
      [] dir = "m" -> MonthNumAt(s, si)
      [] dir = "Y" -> DigitsAt(s, si, 4)
      [] dir = "y" -> DigitsAt(s, si, 2)
      [] OTHER -> NoMatch

\* the fields f after the directive %dir matched the value val
WithField(f, dir, val) ==
    CASE dir \in {"B", "b", "m"} -> [f EXCEPT !.m = val]
      [] dir = "d" -> [f EXCEPT !.d = val]
      [] dir = "Y" -> [f EXCEPT !.y = val]
      [] dir = "y" -> [f EXCEPT !.y = IF val <= 68 THEN 2000 + val ELSE 1900 + val]

\* match the format from position fi against the text from position si;
\* f carries the fields found so far (defaults 1900-01-01).  StrpDirective
\* continues after the directive at fi, whose match is r.
RECURSIVE StrpMatch(_, _, _, _, _)
RECURSIVE StrpDirective(_, _, _, _, _)
StrpDirective(fmt, fi, s, f, r) ==
    IF ~r.ok THEN NoMatch
    ELSE StrpMatch(fmt, fi + 2, s, r.end, WithField(f, Ch(fmt, fi + 1), r.val))

StrpMatch(fmt, fi, s, si, f) ==
    IF fi > Len(fmt)
    THEN (IF si = Len(s) + 1 THEN [ok |-> TRUE, f |-> f] ELSE NoMatch)
    ELSE IF Ch(fmt, fi) = "%"
    THEN StrpDirective(fmt, fi, s, f, DirectiveAt(Ch(fmt, fi + 1), s, si))
    ELSE IF IsSpace(Ch(fmt, fi))
    THEN (IF si <= Len(s) /\ IsSpace(Ch(s, si))
          THEN StrpMatch(fmt, SkipSpaces(fmt, fi), s, SkipSpaces(s, si), f)
          ELSE NoMatch)
    ELSE IF si <= Len(s) /\ LowerCh(Ch(s, si)) = LowerCh(Ch(fmt, fi))
    THEN StrpMatch(fmt, fi + 1, s, si + 1, f)
    ELSE NoMatch

\* the date of a complete match r, NoDate for a failed match or a day that
\* the month does not have
DateOfMatch(r) ==
    IF r.ok /\ r.f.y >= 1 /\ r.f.d <= DaysInMonth(r.f.y, r.f.m)
    THEN MakeDate(r.f.y, r.f.m, r.f.d)
    ELSE NoDate

strptime_date(text, fmt) ==
    DateOfMatch(StrpMatch(fmt, 1, text, 1, [y |-> 1900, m |-> 1, d |-> 1]))

-----------------------------------------------------------------------------
(* urllib.parse.quote(text, safe='')                                       *)

Ascii32to95 == " !\"#$%&'()*+,-./0123456789:;<=>?@ABCDEFGHIJKLMNOPQRSTUVWXYZ[\\]^_"
Ascii97to126 == "abcdefghijklmnopqrstuvwxyz{|}~"

\* ord(c) for a printable ASCII character
Ord(c) ==
    IF \E i \in 1..Len(Ascii32to95) : Ch(Ascii32to95, i) = c
    THEN 31 + (CHOOSE i \in 1..Len(Ascii32to95) : Ch(Ascii32to95, i) = c)
    ELSE 96 + (CHOOSE i \in 1..Len(Ascii97to126) : Ch(Ascii97to126, i) = c)

PercentByte(n) == "%" \o Ch("0123456789ABCDEF", (n \div 16) + 1) \o Ch("0123456789ABCDEF", (n % 16) + 1)

QuoteCh(c) ==
    IF c = EnDash THEN "%E2%80%93"
    ELSE IF c = EmDash THEN "%E2%80%94"
    ELSE IF IsWordChar(c) \/ c \in {".", "-"} THEN c
    ELSE PercentByte(Ord(c))

RECURSIVE quote(_)
quote(s) == IF s = "" THEN "" ELSE QuoteCh(Ch(s, 1)) \o quote(Tail(s))

-----------------------------------------------------------------------------
(* Bounded inputs                                                          *)

\* a retrieved document's metadata, as load_documents writes it
Event(title, date, day, time, contact, phone, category) ==
    [title |-> title, date |-> date, day |-> day, time |-> time,
     location |-> "", contribution |-> "", contact |-> contact,
     phone |-> phone, category |-> category]

\* the clock readings of a search: 15 November 2025 at 06:00, at 10:00 and
\* one microsecond after 07:00, and Monday 17 November 2025 at 08:00
Today == MakeDate(2025, 11, 15)
Nows == {[date |-> Today, time |-> <<6, 0, 0, 0>>],
         [date |-> Today, time |-> <<10, 0, 0, 0>>],
         [date |-> Today, time |-> <<7, 0, 0, 1>>],
         [date |-> MakeDate(2025, 11, 17), time |-> <<8, 0, 0, 0>>]}

\* records for the checks of one search: dated (past, today, later; with a
\* year, without, a range), recurring and undated ones, duplicates that
\* differ in their time text, and contacts shared between records; a day
\* text that names no weekday, and a category text that names two categories
Pool ==
    {Event("Morning Yoga", "November 14, 2025", "", "7 AM", "", "", ""),
     Event("Morning Yoga", "November 15, 2025", "", "7 AM", "", "", ""),
     Event("Morning Yoga", "November 15, 2025", "", "6 PM", "", "", ""),
     Event("Film Night", "November 14", "Friday", "8 PM", "Cinema", "", ""),
     Event("Retreat", "10-12 November", "", "", "", "+91 98765", "date-specific"),
     Event("Tai Chi", "", "Monday", "7 AM", "Anna", "", "Weekly"),
     Event("Pottery", "n/a", "Monday", "9 AM", "Ben", "", ""),
     Event("Choir", " ", "Monday", "6 PM", "Anna", "", ""),
     Event("Massage", "Upcoming", "", "Anytime", "", "+91 98765", "Workshop"),
     Event("Open Studio", "16.11.25", "Sunday", "7-9 AM", "Ben", "", "Daily"),
     Event("Reiki", "", "By appointment", "", "Cleo", "", ""),
     Event("Sound Bath", "", "Monday", "5 PM", "Dev", "", "Weekly, no fixed date")}

MaxDocs == 3

\* records for the checks of the cache over several searches
CachePool ==
    {Event("Morning Yoga", "November 14, 2025", "", "7 AM", "", "", ""),
     Event("Tai Chi", "", "Monday", "7 AM", "Anna", "", "Weekly"),
     Event("Pottery", "n/a", "Monday", "9 AM", "Ben", "", ""),
     Event("Massage", "Upcoming", "", "Anytime", "", "+91 98765", "Workshop")}

MaxCacheDocs == 2

\* records for the checks of the dates written without a year
DatePool ==
    {Event("Film Night", "November 14", "Friday", "8 PM", "Cinema", "", ""),
     Event("Concert", "14 November", "", "8 PM", "", "", ""),
     Event("Market", "14 Nov", "", "", "", "", ""),
     Event("Fair", "November 16", "", "", "", "", ""),
     Event("Morning Yoga", "November 14, 2025", "", "7 AM", "", "", "")}

MaxDateDocs == 1

\* the value None of a metadata field, written as a text no cell holds
None == "<None>"

\* records for the checks of the failure paths: with a title and without,
\* with and without a contact, and one without title that is past
NullPool ==
    {Event("Tai Chi", "", "Monday", "7 AM", "Anna", "", "Weekly"),
     Event(None, "", "Monday", "9 AM", "Anna", "", ""),
     Event(None, "", "", "", "", "", ""),
     Event(None, "November 14, 2025", "", "7 AM", "Ben", "", ""),
     Event("Massage", "Upcoming", "", "Anytime", "", "+91 98765", "Workshop")}

MaxNullDocs == 2

\* the sequences over S of length at most n
SeqsUpTo(S, n) == UNION {[1..k -> S] : k \in 0..n}

-----------------------------------------------------------------------------
(* search_auroville_events: what the loops compute for one record          *)

is_date_specific(date_str, day_str) ==
    date_str # "" /\ Lower(Strip(date_str)) \notin {"", "n/a", "upcoming", "none"}

FilterFormats == <<"%B %d, %Y", "%B %d", "%d %B", "%d %b", "%d.%m.%y", "%d.%m.%Y">>

HasYear(fmt) == Contains("%Y", fmt) \/ Contains("%y", fmt)

\* one turn of the format loop: the text handed to strptime and its result
ParseWithFormat(date_str, fmt, year) ==
    strptime_date(Strip(IF HasYear(fmt) THEN date_str
                        ELSE date_str \o ", " \o IntToStr(year)),
                  Strip(fmt))

\* the date d when the format parsed, else what the later formats give
OrElse(d, later) == IF d # NoDate THEN d ELSE later

\* the format loop: the date of the first format that parses, else NoDate
RECURSIVE FirstParse(_, _, _, _)
FirstParse(date_str, formats, k, year) ==
    IF k > Len(formats) THEN NoDate
    ELSE OrElse(ParseWithFormat(date_str, formats[k], year),
                FirstParse(date_str, formats, k + 1, year))

\* event_dt of lines 294-304, NoDate when no format parses (or the time
\* parser raises inside the inner try)
EventDate(date_str, time_str, today) ==
    IF parse_time_for_sort(time_str) = ValueError THEN NoDate
    ELSE FirstParse(date_str, FilterFormats, 1, today \div 10000)

\* the comparison of the dates alone
Before_DateOnly(d, t, n) == d # NoDate /\ d < n.date

\* lines 309-313, event_dt < now, for the date d and start time t of the event
Before(d, t, n) ==
    /\ d # NoDate
    /\ \/ d < n.date
       \/ d = n.date /\ TimeLT(t, n.time)

\* a record whose date does not parse counts as past, whatever its date text
IsPastEvent_Unparsed(date_str, time_str, day_str, n) ==
    \/ EventDate(date_str, time_str, n.date) = NoDate
    \/ Before(EventDate(date_str, time_str, n.date), parse_time_for_sort(time_str), n)

\* lines 292-313: the record is skipped as a past event
IsPastEvent(date_str, time_str, day_str, n) ==
    /\ is_date_specific(date_str, day_str)
    /\ Before(EventDate(date_str, time_str, n.date), parse_time_for_sort(time_str), n)

\* lines 285-313 for one record
PastEvent(doc, n) == IsPastEvent(Strip(doc.date), Strip(doc.time), doc.day, n)

\* line 287
DedupKey(doc) == <<doc.title, Strip(doc.date), doc.day>>

categories == <<"Date-specific", "Weekday-based", "Appointment/Daily-based">>

\* lines 329-340: the category for the lower-cased raw category text
CategoryFor(raw_cat, doc) ==
    IF Contains("date", raw_cat) THEN "Date-specific"
    ELSE IF Contains("week", raw_cat) \/ Contains("weekday", raw_cat)
    THEN "Weekday-based"
    ELSE IF Contains("appoint", raw_cat) \/ Contains("daily", raw_cat)
            \/ Contains("everyday", raw_cat)
    THEN "Appointment/Daily-based"
    ELSE IF is_date_specific(doc.date, doc.day) THEN "Date-specific"
    ELSE IF doc.day # "" THEN "Weekday-based"
    ELSE "Appointment/Daily-based"

\* the category text left as the record carries it
NormalizeCategory_Raw(doc) == doc.category

\* lines 326-340: the normalised category of a kept record
NormalizeCategory(doc) == CategoryFor(Lower(Strip(doc.category)), doc)

\* line 323
SortTime(doc) == parse_time_for_sort(doc.time)

\* lines 369-373
GroupKey(doc) ==
    LET phone == Strip(doc.phone)
        contact == Strip(doc.contact)
        phone_digits == IF phone # "" THEN DigitsOnly(phone) ELSE ""
    IN  IF phone_digits # "" THEN phone_digits
        ELSE IF contact # "" THEN contact
        ELSE doc.title

\* lines 387-391, for the first record of a group
DisplayTitle(first) ==
    LET representative == IF first.contact # "" THEN first.contact
                          ELSE IF first.phone # "" THEN first.phone
                          ELSE first.title
    IN  IF Strip(representative) # "" THEN Strip(representative) ELSE first.title

\* lines 397-416: one line of the merged content
MergedLine(it) ==
    LET parts == (IF Strip(it.day) # "" THEN <<Strip(it.day)>> ELSE <<>>)
              \o (IF Strip(it.date) # "" THEN <<Strip(it.date)>> ELSE <<>>)
              \o (IF Strip(it.time) # "" THEN <<Strip(it.time)>> ELSE <<>>)
              \o (IF Strip(it.location) # "" THEN <<"@" \o Strip(it.location)>> ELSE <<>>)
              \o (IF Strip(it.contribution) # ""
                  THEN <<"| Contrib: " \o Strip(it.contribution)>> ELSE <<>>)
    IN  "- **" \o Strip(it.title) \o "** " \o Join(parts, " ")

\* the reference key built from the category alone
SafeGroupKey_CategoryOnly(cat, group_key) == quote(cat \o "::CONTACT::")

\* line 422
SafeGroupKey(cat, group_key) == quote(cat \o "::CONTACT::" \o group_key)

\* The values above, computed once for every record of the pools (and, for
\* the past-event test, every clock reading); the loops below read them here.
Records == Pool \cup CachePool \cup DatePool \cup NullPool

DateSpecificOf == [r \in Records |-> is_date_specific(Strip(r.date), r.day)] @@ <<>>
EventDateOf == [r \in Records |-> EventDate(Strip(r.date), Strip(r.time), Today)] @@ <<>>
StartTimeOf == [r \in Records |-> parse_time_for_sort(Strip(r.time))] @@ <<>>
PastOf == [r \in Records |-> {n \in Nows : PastEvent(r, n)}] @@ <<>>
DedupKeyOf == [r \in Records |-> DedupKey(r)] @@ <<>>
CategoryOf == [r \in Records |-> NormalizeCategory(r)] @@ <<>>
SortTimeOf == [r \in Records |-> SortTime(r)] @@ <<>>
GroupKeyOf == [r \in Records |-> GroupKey(r)] @@ <<>>
DisplayTitleOf == [r \in Records |-> DisplayTitle(r)] @@ <<>>
MergedLineOf == [r \in Records |-> MergedLine(r)] @@ <<>>

SafeKeyOf ==
    [ck \in {CategoryOf[r] : r \in Records} \X {GroupKeyOf[r] : r \in Records} |->
        SafeGroupKey(ck[1], ck[2])] @@ <<>>

-----------------------------------------------------------------------------
(* search_auroville_events: the loops                                      *)

RECURSIVE FilterLoop(_, _, _, _, _)
RECURSIVE FilterStep(_, _, _, _, _, _)

\* the filter loop without the seen set
FilterStep_NoSeen(ds, i, n, seen, kept, key) ==
    IF n \in PastOf[ds[i]]
    THEN FilterLoop(ds, i + 1, n, seen, kept)
    ELSE FilterLoop(ds, i + 1, n, seen, Append(kept, i))

\* the filter loop with the key recorded before the past-event test
FilterStep_SeenFirst(ds, i, n, seen, kept, key) ==
    IF key \in seen
    THEN FilterLoop(ds, i + 1, n, seen, kept)
    ELSE IF n \in PastOf[ds[i]]
    THEN FilterLoop(ds, i + 1, n, seen \cup {key}, kept)
    ELSE FilterLoop(ds, i + 1, n, seen \cup {key}, Append(kept, i))

\* lines 287-316 for the record at position i, whose key is key
FilterStep(ds, i, n, seen, kept, key) ==
    IF key \in seen
    THEN FilterLoop(ds, i + 1, n, seen, kept)
    ELSE IF n \in PastOf[ds[i]]
    THEN FilterLoop(ds, i + 1, n, seen, kept)
    ELSE FilterLoop(ds, i + 1, n, seen \cup {key}, Append(kept, i))

\* the loop of lines 284-316 from position i: the positions (in ds) of the
\* records kept, in order
FilterLoop(ds, i, n, seen, kept) ==
    IF i > Len(ds) THEN kept
    ELSE FilterStep(ds, i, n, seen, kept, DedupKeyOf[ds[i]])

\* list.sort(key=...): stable insertion of x into a sorted list; key[x] is
\* the sort key of x
RECURSIVE InsertByKey(_, _, _)
InsertByKey(sorted, x, key) ==
    IF sorted = <<>> THEN <<x>>
    ELSE IF TimeLT(key[x], key[sorted[Len(sorted)]])
    THEN Append(InsertByKey(SubSeq(sorted, 1, Len(sorted) - 1), x, key),
                sorted[Len(sorted)])
    ELSE Append(sorted, x)

\* the list left in the order it has
StableSort_Unsorted(xs, key) == xs

RECURSIVE StableSort(_, _)
StableSort(xs, key) ==
    IF xs = <<>> THEN <<>>
    ELSE InsertByKey(StableSort(SubSeq(xs, 1, Len(xs) - 1), key), xs[Len(xs)], key)

\* doc.metadata["_sort_time"] of the records of ds, by position
SortTimes(ds) == [i \in 1..Len(ds) |-> SortTimeOf[ds[i]]]

\* doc.metadata["category"] of the records of ds, by position
Categories(ds) == [i \in 1..Len(ds) |-> CategoryOf[ds[i]]]

\* lines 343-354: the bucket of every category that received a record or is
\* one of the three fixed ones, each sorted by _sort_time; cat_of and times
\* give the category and the sort time by position
BucketsOf(kept, cat_of, times) ==
    [cat \in {categories[c] : c \in 1..3} \cup {cat_of[kept[k]] : k \in 1..Len(kept)} |->
        StableSort(SelectSeq(kept, LAMBDA i : cat_of[i] = cat), times)]

CategoryBuckets(ds, kept) == BucketsOf(kept, Categories(ds), SortTimes(ds))

\* lines 369-374 for one record, whose group key is gk
AddToGroups(groups, gk, item) ==
    IF \E g \in 1..Len(groups) : groups[g].group_key = gk
    THEN [g \in 1..Len(groups) |->
             IF groups[g].group_key = gk
             THEN [groups[g] EXCEPT !.items = Append(@, item)]
             ELSE groups[g]]
    ELSE Append(groups, [group_key |-> gk, items |-> <<item>>])

\* lines 367-374: groups in order of first appearance
RECURSIVE GroupLoop(_, _, _, _)
GroupLoop(ds, bucket, k, groups) ==
    IF k > Len(bucket) THEN groups
    ELSE GroupLoop(ds, bucket, k + 1,
                   AddToGroups(groups, GroupKeyOf[ds[bucket[k]]], bucket[k]))

\* min(i.metadata["_sort_time"] for i in items)
RECURSIVE MinTime(_, _)
MinTime(items, key) ==
    IF Len(items) = 1 THEN key[items[1]]
    ELSE LET rest == MinTime(Tail(items), key)
         IN  IF TimeLT(rest, key[items[1]]) THEN rest ELSE key[items[1]]

\* lines 377-380: the groups sorted by the earliest _sort_time of their items
SortGroups(groups, times) ==
    LET order == StableSort([g \in 1..Len(groups) |-> g],
                            [g \in 1..Len(groups) |-> MinTime(groups[g].items, times)])
    IN  [g \in 1..Len(groups) |-> groups[order[g]]]

\* lines 366-380 for one bucket
SortedGroupItems(ds, bucket) ==
    SortGroups(GroupLoop(ds, bucket, 1, <<>>), SortTimes(ds))

\* the merged title that always counts one event
MergedTitle_One(ds, items) == DisplayTitleOf[ds[items[1]]] \o " (1 event)"

\* line 392
MergedTitle(ds, items) ==
    DisplayTitleOf[ds[items[1]]] \o " (" \o IntToStr(Len(items)) \o " event"
    \o (IF Len(items) # 1 THEN "s" ELSE "") \o ")"

\* lines 424-437
MergedDoc(ds, cat, items) ==
    LET first == ds[items[1]]
    IN  [page_content |->
             Join([k \in 1..Len(items) |-> MergedLineOf[ds[items[k]]]], "\n"),
         title |-> MergedTitle(ds, items),
         contact |-> first.contact,
         phone |-> first.phone,
         category |-> cat,
         day |-> first.day,
         date |-> first.date,
         time |-> first.time,
         location |-> first.location]

NoEntries == [k \in {} |-> 0]

\* the cache left as it is where the code clears it
ClearedStore_Kept(store) == store

\* line 357: EVENT_DATA_STORE.clear()
ClearedStore(store) == NoEntries

\* lines 420-444 for one group: the merged document doc is stored under key
\* and its link is rendered; st = [store, lines, groups, total, raised]
RenderGroup(st, cat, group, key, doc) ==
    [raised |-> st.raised,
     store |-> (key :> doc) @@ st.store,
     lines |-> Append(st.lines, [kind |-> "link", title |-> doc.title, key |-> key]),
     groups |-> Append(st.groups,
                 [cat |-> cat, group_key |-> group.group_key, items |-> group.items]),
     total |-> st.total + 1]

\* lines 389 and 397: .strip() on the title of a record that has none
\* raises AttributeError
StripsNone(ds, items) == \E k \in 1..Len(items) : ds[items[k]].title = None

\* lines 384-444 for one category: every group is stored and rendered, up
\* to the group whose rendering raises
RECURSIVE RenderGroups(_, _, _, _, _)
RenderGroups(ds, cat, sorted, g, st) ==
    IF g > Len(sorted) \/ st.raised # "" THEN st
    ELSE IF StripsNone(ds, sorted[g].items)
    THEN [st EXCEPT !.raised = "AttributeError"]
    ELSE RenderGroups(ds, cat, sorted, g + 1,
            RenderGroup(st, cat, sorted[g], SafeKeyOf[<<cat, sorted[g].group_key>>],
                        MergedDoc(ds, cat, sorted[g].items)))

\* lines 360-444 for one category and its bucket
RenderCategory(ds, cat, bucket, st) ==
    IF bucket = <<>> \/ st.raised # "" THEN st
    ELSE RenderGroups(ds, cat, SortedGroupItems(ds, bucket), 1,
            [st EXCEPT !.lines = Append(@, [kind |-> "header", cat |-> cat])])

\* lines 357-444: the loop over the three categories, from category c
RECURSIVE RenderCategories(_, _, _, _)
RenderCategories(ds, buckets, c, st) ==
    IF c > Len(categories) THEN st
    ELSE RenderCategories(ds, buckets, c + 1,
            RenderCategory(ds, categories[c],
                           IF categories[c] \in DOMAIN buckets
                           THEN buckets[categories[c]] ELSE <<>>,
                           st))

MsgInitializing == "The event database is still initializing. Please try again."
MsgNoDocs == "I couldn't find any upcoming events matching those criteria."
MsgNoneLeft == "I couldn't find any upcoming or ongoing events matching those criteria."
Header(n) == "Found " \o IntToStr(n) \o " event group(s). Click a name to see details:\n"

\* an early return: nothing is bucketed or rendered and the cache is not
\* touched
ReturnEarly(message) ==
    /\ result' = message
    /\ raised' = ""
    /\ category_buckets' = NoEntries
    /\ sorted_group_items' = <<>>
    /\ out_lines' = <<>>
    /\ total_groups' = 0
    /\ UNCHANGED EVENT_DATA_STORE

\* lines 446-454: the state st of the rendering loop is returned, or the
\* exception raised in the loop leaves the call and nothing is returned
ReturnRendered(st) ==
    /\ sorted_group_items' = st.groups
    /\ EVENT_DATA_STORE' = st.store
    /\ total_groups' = st.total
    /\ raised' = st.raised
    /\ out_lines' = IF st.total = 0 /\ st.raised = ""
                    THEN <<[kind |-> "text", text |-> "Found 0 event groups."]>>
                    ELSE st.lines
    /\ result' = IF st.raised = "" THEN Header(st.total) ELSE ""

\* lines 343-454 for the buckets of the kept records
RenderBuckets(ds, buckets) ==
    /\ category_buckets' = buckets
    /\ ReturnRendered(RenderCategories(ds, buckets, 1,
                         [store |-> ClearedStore(EVENT_DATA_STORE), raised |-> "",
                          lines |-> <<>>, groups |-> <<>>, total |-> 0]))

\* lines 318-454 for the positions kept by the filter loop
RenderKept(ds, kept) ==
    /\ filtered' = kept
    /\ IF kept = <<>> THEN ReturnEarly(MsgNoneLeft)
       ELSE RenderBuckets(ds, CategoryBuckets(ds, kept))

\* The call whose retrieval raises: retriever.invoke, line 272, is in no try,
\* so the exception leaves the call before anything is filtered or cleared.
RetrievalRaises(n) ==
    /\ retriever
    /\ UNCHANGED <<retriever, EVENT_DATA_STORE>>
    /\ now' = n
    /\ docs' = <<>> /\ filtered' = <<>>
    /\ category_buckets' = NoEntries
    /\ sorted_group_items' = <<>>
    /\ out_lines' = <<>>
    /\ total_groups' = 0
    /\ result' = ""
    /\ raised' = "retriever.invoke"

\* the call without the guard of lines 235-237
search_auroville_events_Unguarded(ds, n) ==
    /\ UNCHANGED retriever
    /\ now' = n
    /\ docs' = ds
    /\ IF ds = <<>>
       THEN /\ filtered' = <<>>
            /\ ReturnEarly(MsgNoDocs)
       ELSE RenderKept(ds, FilterLoop(ds, 1, n, {}, <<>>))

\* The call search_auroville_events(...) whose retrieval returns ds and whose
\* clock reads n.
search_auroville_events(ds, n) ==
    /\ UNCHANGED retriever
    /\ now' = n
    /\ IF ~retriever
       THEN /\ docs' = <<>> /\ filtered' = <<>>
            /\ ReturnEarly(MsgInitializing)
       ELSE /\ docs' = ds
            /\ IF ds = <<>>
               THEN /\ filtered' = <<>>
                    /\ ReturnEarly(MsgNoDocs)
               ELSE RenderKept(ds, FilterLoop(ds, 1, n, {}, <<>>))

\* initialize_retriever(vectorstore); loaded says the vector store is not None
initialize_retriever(loaded) ==
    /\ retriever' = IF loaded THEN TRUE ELSE retriever
    /\ UNCHANGED <<EVENT_DATA_STORE, docs, now, filtered, category_buckets,
                   sorted_group_items, out_lines, total_groups, result, raised>>

-----------------------------------------------------------------------------
(* app.py: the routing of a chat request and the page's click handler      *)

\* position after  \d*  matched from position i
RECURSIVE DigitRunEnd(_, _)
DigitRunEnd(s, i) == IF IsDigitAt(s, i) THEN DigitRunEnd(s, i + 1) ELSE i

\* the rest of DETAILS_RE from position i, the digits ending before j:
\* (\d+)\s*\)\s*$
DetailsDigits(q, i, j) ==
    IF /\ j > i
       /\ SkipSpaces(q, j) <= Len(q)
       /\ Ch(q, SkipSpaces(q, j)) = ")"
       /\ SkipSpaces(q, SkipSpaces(q, j) + 1) = Len(q) + 1
    THEN [ok |-> TRUE, g1 |-> SubSeq(q, i, j - 1)]
    ELSE NoMatch

\* the pattern compiled without re.IGNORECASE
DetailsOpen_CaseSensitive(q, i) ==
    IF StartsAt(q, i, "details(")
    THEN DetailsDigits(q, SkipSpaces(q, i + 8), DigitRunEnd(q, SkipSpaces(q, i + 8)))
    ELSE NoMatch

\* DETAILS_RE.match(q), the pattern ^\s*details\(\s*(\d+)\s*\)\s*$ without
\* regard to letter case
DetailsOpen(q, i) ==
    IF StartsAt(Lower(q), i, "details(")
    THEN DetailsDigits(q, SkipSpaces(q, i + 8), DigitRunEnd(q, SkipSpaces(q, i + 8)))
    ELSE NoMatch

DETAILS_RE(q) == DetailsOpen(q, SkipSpaces(q, 1))

\* DIGITS_RE.match(q), the pattern ^\s*(\d+)\s*$
DigitsClose(q, i, j) ==
    IF j > i /\ SkipSpaces(q, j) = Len(q) + 1
    THEN [ok |-> TRUE, g1 |-> SubSeq(q, i, j - 1)]
    ELSE NoMatch

DIGITS_RE(q) == DigitsClose(q, SkipSpaces(q, 1), DigitRunEnd(q, SkipSpaces(q, 1)))

SHOW_DAILY_ALIASES ==
    {"show daily events", "show daily event", "show daily",
     "show daily events please", "show daily events, please",
     "show daily events yes", "show daily events y"}

\* A key of EVENT_DATA_STORE that is a Python int is written as its decimal
\* digits; the keys a search writes are quoted texts that start with a
\* category name, so the two never meet.
IsIntKey(k) == k # "" /\ DigitsOnly(k) = k

\* a < b for Python str values (by code point)
RECURSIVE StrLess(_, _)
StrLess(a, b) ==
    IF b = "" THEN FALSE
    ELSE IF a = "" THEN TRUE
    ELSE IF Ch(a, 1) = Ch(b, 1) THEN StrLess(Tail(a), Tail(b))
    ELSE Ord(Ch(a, 1)) < Ord(Ch(b, 1))

\* a < b for two keys of the same Python type
KeyLess(a, b) == IF IsIntKey(a) THEN StrToInt(a) < StrToInt(b) ELSE StrLess(a, b)

\* lines 120-123: max(EVENT_DATA_STORE.keys()), 0 for the empty cache and
\* for keys of both types, whose comparison raises TypeError
last_index(keys) ==
    IF keys = {} THEN "0"
    ELSE IF \E a, b \in keys : IsIntKey(a) # IsIntKey(b) THEN "0"
    ELSE CHOOSE k \in keys : \A j \in keys : ~KeyLess(k, j)

\* the sessions of the page: two browser sessions, and the two values
\* streaming_chat takes for no session
SessionIds == {"A", "B", "", "null"}

\* the texts a user sends
Questions ==
    {"2", " 002 ", "details(2)", "DETAILS( 2 )", "-2", " Show Daily Events ",
     "yoga today"}

\* the records the searches of a chat retrieve: a weekly one and a daily one
ChatPool ==
    {Event("Tai Chi", "", "Monday", "7 AM", "Anna", "", "Weekly"),
     Event("Massage", "Upcoming", "", "Anytime", "", "+91 98765", "Workshop")}

MaxChatDocs == 2

\* the clock readings of the searches of a chat
ChatNows == {[date |-> Today, time |-> <<6, 0, 0, 0>>]}

NoRoute == [to |-> "", id |-> "", start_number |-> ""]

\* the two messages a request appends to the history and yields
Messages(q, content) ==
    <<[role |-> "user", content |-> q], [role |-> "assistant", content |-> content]>>

\* lookup(key) followed by render_detail_card, or the message of a miss
render_detail_card(store, key) ==
    IF key \in DOMAIN store
    THEN [kind |-> "card", doc |-> store[key]]
    ELSE [kind |-> "not_found", id |-> key]

\* get_event_details(identifier): the identifier is a bare integer or the
\* details(N) form; N is parsed and looked up
get_event_details(store, identifier) ==
    IF DIGITS_RE(identifier).ok
    THEN render_detail_card(store, IntToStr(StrToInt(DIGITS_RE(identifier).g1)))
    ELSE IF DETAILS_RE(identifier).ok
    THEN render_detail_card(store, IntToStr(StrToInt(DETAILS_RE(identifier).g1)))
    ELSE [kind |-> "unparseable", id |-> identifier]

\* the records a daily-events request retrieves
DailyPool == {r \in ChatPool : CategoryOf[r] = "Appointment/Daily-based"}

MaxDaily == 2
MaxKeys == 3

\* the document a daily-events request caches for a record
DailyDoc(doc) ==
    [page_content |-> "", title |-> doc.title, contact |-> doc.contact,
     phone |-> doc.phone, category |-> "Appointment/Daily-based",
     day |-> doc.day, date |-> doc.date, time |-> doc.time,
     location |-> doc.location]

\* the keys start_number + 1, start_number + 2, ... of n new entries
DailyKeys(start_number, n) == [k \in 1..n |-> IntToStr(StrToInt(start_number) + k)]

\* the summary of a daily-events request: one numbered link per record
DailyLines(ds, keys) ==
    [k \in 1..Len(ds) |-> [kind |-> "details", title |-> ds[k].title, key |-> keys[k]]]

\* append mode: the entries of ds are added under keys, every other entry
\* stays
Appended(store, ds, keys) ==
    [key \in (DOMAIN store) \cup {keys[k] : k \in 1..Len(ds)} |->
        IF \E k \in 1..Len(ds) : keys[k] = key
        THEN DailyDoc(ds[CHOOSE k \in 1..Len(ds) : keys[k] = key])
        ELSE store[key]]

\* the target of a rendered link (line 442 for the links of a search)
Href(line) ==
    IF line.kind = "link" THEN "#FETCH::" \o line.key ELSE "#DETAILS::" \o line.key

\* the text of s before the first "::" in it
RECURSIVE UpToSeparator(_)
UpToSeparator(s) ==
    IF s = "" \/ StartsAt(s, 1, "::") THEN ""
    ELSE Ch(s, 1) \o UpToSeparator(Tail(s))

\* s.match(/(\d+)/): the leftmost run of digits of s, "" when it has none
RECURSIVE FirstDigits(_)
FirstDigits(s) ==
    IF s = "" THEN ""
    ELSE IF IsDigit(Ch(s, 1)) THEN SubSeq(s, 1, DigitRunEnd(s, 1) - 1)
    ELSE FirstDigits(Tail(s))

\* JS_CODE: the text the click listener sends for a link with target h, ""
\* when it sends nothing; parts[1] is the text between the first two "::"
attachClickHandlers(h) ==
    IF StartsAt(h, 1, "#DETAILS::")
    THEN IF FirstDigits(UpToSeparator(SubSeq(h, 11, Len(h)))) # ""
         THEN "details(" \o FirstDigits(UpToSeparator(SubSeq(h, 11, Len(h)))) \o ")"
         ELSE ""
    ELSE IF StartsAt(h, 1, "#SHOWDAILY::")
    THEN IF UpToSeparator(SubSeq(h, 13, Len(h))) = "YES" THEN "show daily events"
         ELSE IF UpToSeparator(SubSeq(h, 13, Len(h))) = "NO" THEN "no"
         ELSE ""
    ELSE ""

search_locals == <<docs, now, filtered, category_buckets, sorted_group_items,
                   out_lines, total_groups, result, raised>>

chat_vars == <<request, route, updated_history, href, textToSend, last_search>>

\* what a request leaves behind: the request, the logged route and the
\* messages it yields (none when it returns early or raises)
Reply(session_id, q, to, messages) ==
    /\ request' = [session_id |-> session_id, q |-> q]
    /\ route' = to
    /\ updated_history' = messages

\* lines 82-84
NoSession(session_id, q) ==
    /\ Reply(session_id, q, NoRoute, <<>>)
    /\ UNCHANGED <<retriever, EVENT_DATA_STORE, search_locals, last_search>>

\* lines 89-100 and 105-115: the detail lookup for idx with the identifier
\* the branch builds
RouteDetails(session_id, q, idx, identifier) ==
    /\ Reply(session_id, q,
             [to |-> "get_event_details", id |-> idx, start_number |-> ""],
             Messages(q, get_event_details(EVENT_DATA_STORE, identifier)))
    /\ UNCHANGED <<retriever, EVENT_DATA_STORE, search_locals, last_search>>

\* get_daily_events(start_number) for the retrieved records ds
get_daily_events(session_id, q, start_number, ds) ==
    /\ Cardinality(DOMAIN EVENT_DATA_STORE) + Len(ds) <= MaxKeys
    /\ EVENT_DATA_STORE' =
           Appended(EVENT_DATA_STORE, ds, DailyKeys(start_number, Len(ds)))
    /\ Reply(session_id, q,
             [to |-> "get_daily_events", id |-> "", start_number |-> start_number],
             Messages(q, [kind |-> "daily",
                          lines |-> DailyLines(ds, DailyKeys(start_number, Len(ds)))]))
    /\ last_search' =
           [last_search EXCEPT
                !.lines = @ \o DailyLines(ds, DailyKeys(start_number, Len(ds)))]

\* lines 118-133: the daily-events request; a start number that is no int
\* makes get_daily_events raise, and the request ends without an answer
RouteDaily(session_id, q, start_number) ==
    /\ IF IsIntKey(start_number)
       THEN \E ds \in SeqsUpTo(DailyPool, MaxDaily) :
                get_daily_events(session_id, q, start_number, ds)
       ELSE /\ Reply(session_id, q,
                     [to |-> "get_daily_events", id |-> "",
                      start_number |-> start_number], <<>>)
            /\ UNCHANGED <<EVENT_DATA_STORE, last_search>>
    /\ UNCHANGED <<retriever, search_locals>>

\* lines 136-185: the agent answers, with or without a call of the search
\* tool, whose answer it passes on
RouteAgent(session_id, q) ==
    \/ /\ \E ds \in SeqsUpTo(ChatPool, MaxChatDocs), n \in ChatNows :
              search_auroville_events(ds, n)
       /\ Reply(session_id, q,
                [to |-> "auroville_agent", id |-> "", start_number |-> ""],
                Messages(q, [kind |-> "text", text |-> result', lines |-> out_lines']))
       /\ last_search' = [session_id |-> session_id, lines |-> out_lines']
    \/ /\ Reply(session_id, q,
                [to |-> "auroville_agent", id |-> "", start_number |-> ""],
                Messages(q, [kind |-> "text", text |-> "", lines |-> <<>>]))
       /\ UNCHANGED <<retriever, EVENT_DATA_STORE, search_locals, last_search>>

\* lines 82-135 for the stripped question q
Route(session_id, q) ==
    IF session_id \in {"", "null"} THEN NoSession(session_id, q)
    ELSE IF DETAILS_RE(q).ok
    THEN RouteDetails(session_id, q, IntToStr(StrToInt(DETAILS_RE(q).g1)),
                      "details(" \o IntToStr(StrToInt(DETAILS_RE(q).g1)) \o ")")
    ELSE IF DIGITS_RE(q).ok
    THEN RouteDetails(session_id, q, IntToStr(StrToInt(DIGITS_RE(q).g1)),
                      IntToStr(StrToInt(DIGITS_RE(q).g1)))
    ELSE IF Lower(q) \in SHOW_DAILY_ALIASES
    THEN RouteDaily(session_id, q, last_index(DOMAIN EVENT_DATA_STORE))
    ELSE RouteAgent(session_id, q)

streaming_chat(question, session_id) == Route(session_id, Strip(question))

\* the links of the answer the page shows last: those of a list of the search
\* tool or of the daily events
WindowLinks ==
    IF updated_history = <<>> \/ updated_history[2].content.kind \notin {"text", "daily"}
    THEN {}
    ELSE {updated_history[2].content.lines[k] :
              k \in {j \in 1..Len(updated_history[2].content.lines) :
                        updated_history[2].content.lines[j].kind \in {"link", "details"}}}

\* a click on a link with target h in the window of the last request: the
\* listener sets the text and, when there is one, submits it
ClickOn(h, text) ==
    /\ href' = h
    /\ textToSend' = text
    /\ IF text # ""
       THEN streaming_chat(text, request.session_id)
       ELSE UNCHANGED <<retriever, EVENT_DATA_STORE, search_locals, request, route,
                        updated_history, last_search>>

filter_vars == <<filter_date, filter_day, simple_filters, filter_location,
                 chroma_filter>>

range_vars == <<range_arg, iso_range>>
card_vars == <<doc_metadata, doc_content, card_text, summary_text>>
stream_vars == <<history, stream_events, pc, response_text, yields>>
later_vars == <<range_vars, card_vars, stream_vars, chats, gradio_history>>

\* no call of parse_date_to_iso_range yet
RangeIdle == range_arg = "" /\ iso_range = <<>>

\* no call of the two formatters yet
CardIdle ==
    /\ doc_metadata = NoEntries
    /\ doc_content = ""
    /\ card_text = ""
    /\ summary_text = ""

\* no run of streaming_chat as a generator yet
StreamIdle ==
    /\ history = <<>>
    /\ stream_events = <<>>
    /\ pc = "idle"
    /\ response_text = ""
    /\ yields = <<>>

\* an empty chats table, nothing loaded from it
HistoryIdle == chats = <<>> /\ gradio_history = <<>>

\* a call without filter arguments
FiltersInit ==
    /\ filter_date = ""
    /\ filter_day = ""
    /\ simple_filters = NoEntries
    /\ filter_location = ""
    /\ chroma_filter = NoEntries

ChatInit ==
    /\ request = [session_id |-> "", q |-> ""]
    /\ route = NoRoute
    /\ updated_history = <<>>
    /\ href = ""
    /\ textToSend = ""
    /\ last_search = [session_id |-> "", lines |-> <<>>]

-----------------------------------------------------------------------------
(* vector_db.py: parse_date_to_iso_range                                   *)

RangeFormats == <<"%B %d, %Y", "%B %d", "%d %B", "%d %b", "%d.%m.%y", "%d.%m.%Y",
                  "%Y-%m-%d", "%d %b %Y", "%d %B %Y">>

\* try_parse(ds): the format loop of lines 77-85, NoDate for None
try_parse(ds, year) == FirstParse(ds, RangeFormats, 1, year)

\* the three dashes of the patterns
Dashes == {"-", EnDash, EmDash}

\* [A-Za-z]
IsAlpha(c) == IsWordChar(c) /\ ~IsDigit(c) /\ c # "_"

\* the rest of the pattern of line 88 from position c, the first digits
\* ending before a and the second ones before d:  (\d{1,2})\s+([A-Za-z]+)$
RangeTail(s, a, c, d) ==
    IF /\ d - c \in 1..2
       /\ SkipSpaces(s, d) > d
       /\ SkipSpaces(s, d) <= Len(s)
       /\ \A k \in SkipSpaces(s, d)..Len(s) : IsAlpha(Ch(s, k))
    THEN [ok |-> TRUE, g1 |-> SubSeq(s, 1, a - 1), g2 |-> SubSeq(s, c, d - 1),
          g3 |-> SubSeq(s, SkipSpaces(s, d), Len(s))]
    ELSE NoMatch

\* the pattern of line 88 after its first digits, which end before a, with
\* the dash expected at b:  \s*[dash]\s*  and the rest
RangeDash(s, a, b) ==
    IF a \in 2..3 /\ b <= Len(s) /\ Ch(s, b) \in Dashes
    THEN RangeTail(s, a, SkipSpaces(s, b + 1), DigitRunEnd(s, SkipSpaces(s, b + 1)))
    ELSE NoMatch

\* re.search(r'^(\d{1,2})\s*[dash]\s*(\d{1,2})\s+([A-Za-z]+)$', s)
range_match(s) == RangeDash(s, DigitRunEnd(s, 1), SkipSpaces(s, DigitRunEnd(s, 1)))

\* the position after a separator  \s*[dash]\s*  or  \s+to\s+  that starts at
\* position i, j being the position after the spaces at i; 0 when none does
SeparatorEnd(s, i, j) ==
    IF j <= Len(s) /\ Ch(s, j) \in Dashes THEN SkipSpaces(s, j + 1)
    ELSE IF j > i /\ StartsAt(s, j, "to") /\ SkipSpaces(s, j + 2) > j + 2
    THEN SkipSpaces(s, j + 2)
    ELSE 0

\* the parts of s from position start on, the scan being at position i
RECURSIVE SplitFrom(_, _, _)
SplitFrom(s, start, i) ==
    IF i > Len(s) THEN <<SubSeq(s, start, Len(s))>>
    ELSE IF SeparatorEnd(s, i, SkipSpaces(s, i)) # 0
    THEN <<SubSeq(s, start, i - 1)>>
             \o SplitFrom(s, SeparatorEnd(s, i, SkipSpaces(s, i)),
                          SeparatorEnd(s, i, SkipSpaces(s, i)))
    ELSE SplitFrom(s, start, i + 1)

\* re.split(r'\s*[dash]\s*|\s+to\s+', s)
re_split(s) == SplitFrom(s, 1, 1)

\* two decimal digits for n < 100
Pad2(n) == IF n < 10 THEN "0" \o IntToStr(n) ELSE IntToStr(n)

\* date.strftime("%Y-%m-%d")
strftime_Ymd(d) ==
    IntToStr(d \div 10000) \o "-" \o Pad2((d \div 100) % 100) \o "-" \o Pad2(d % 100)

\* the pair of the two dates when both parsed, else what the code does next
BothParsed(sd, ed, otherwise) ==
    IF sd # NoDate /\ ed # NoDate THEN <<strftime_Ymd(sd), strftime_Ymd(ed)>>
    ELSE otherwise

\* lines 100-115: the split into two dates or the single date
SplitRange(parts, year) ==
    IF Len(parts) = 2
    THEN BothParsed(try_parse(parts[1], year), try_parse(parts[2], year), <<"", "">>)
    ELSE IF Len(parts) = 1
    THEN BothParsed(try_parse(parts[1], year), try_parse(parts[1], year), <<"", "">>)
    ELSE <<"", "">>

\* lines 88-115 for the stripped text s and the match m of line 88
MatchedRange(s, m, year) ==
    IF m.ok
    THEN BothParsed(try_parse(m.g1 \o " " \o m.g3, year),
                    try_parse(m.g2 \o " " \o m.g3, year),
                    SplitRange(re_split(s), year))
    ELSE SplitRange(re_split(s), year)

\* parse_date_to_iso_range(date_str) in the year  datetime.now().year
parse_date_to_iso_range(date_str, year) ==
    IF date_str = "" THEN <<"", "">>
    ELSE MatchedRange(Strip(date_str), range_match(Strip(date_str)), year)

-----------------------------------------------------------------------------
(* auroville_agent.py: format_event_card and format_summary_line           *)

\* doc_metadata.get(key, default)
Get(md, key, default) == IF key \in DOMAIN md THEN md[key] ELSE default

\* filter(None, items) for a list of texts
NonEmpty(items) == SelectSeq(items, LAMBDA x : x # "")

\* urllib.parse.quote(text), which leaves "/" as it is
RECURSIVE quote_default(_)
quote_default(s) ==
    IF s = "" THEN ""
    ELSE (IF Ch(s, 1) = "/" THEN "/" ELSE QuoteCh(Ch(s, 1))) \o quote_default(Tail(s))

\* lines 154-160: the parts of the When line
CardWhen(md) ==
    NonEmpty(<<Strip(Get(md, "day", "")), Strip(Get(md, "date", "")),
               IF Strip(Get(md, "time", "")) # ""
               THEN "@ " \o Strip(Get(md, "time", "")) ELSE "">>)

\* lines 169-174: the WhatsApp link for the digits clean_phone
WaLink(md, clean_phone) ==
    IF clean_phone = "" THEN ""
    ELSE "\n[**Click to Chat on WhatsApp**](https://wa.me/" \o clean_phone \o "?text="
         \o quote_default("Hi, I came across your event '"
                          \o Strip(Get(md, "title", "Event")) \o "' scheduled on "
                          \o Strip(Get(md, "date", "")) \o ". Info?")
         \o ")"

\* lines 176-177
CardContact(md, clean_phone) ==
    IF Strip(Get(md, "contact", "")) # "" \/ clean_phone # ""
    THEN "**Contact:** " \o Strip(Get(md, "contact", "")) \o WaLink(md, clean_phone)
    ELSE ""

\* lines 179-180
CardDescription(content) == <<"\n**Description:**", Strip(content)>>

\* lines 147-183: the list output, with the empty text where the code
\* appends nothing, and the join of its non-empty items
format_event_card(md, content) ==
    Join(NonEmpty(
             <<"**Event Name:** " \o Strip(Get(md, "title", "Event")),
               IF Strip(Get(md, "category", "")) # ""
               THEN "**Category:** " \o Strip(Get(md, "category", "")) ELSE "",
               IF CardWhen(md) # <<>>
               THEN "**When:** " \o Join(CardWhen(md), " ") ELSE "",
               IF Strip(Get(md, "location", "")) # ""
               THEN "**Where:** " \o Strip(Get(md, "location", "")) ELSE "",
               IF Strip(Get(md, "contribution", "")) # ""
               THEN "**Contribution:** " \o Strip(Get(md, "contribution", "")) ELSE "",
               CardContact(md, DigitsOnly(Strip(Get(md, "phone", ""))))>>
             \o CardDescription(content)
             \o <<IF Get(md, "poster_url", "") # ""
                  THEN "\n\n![Event Poster](" \o Get(md, "poster_url", "") \o ")"
                  ELSE "">>),
         "\n")

\* lines 203-212: the list details
SummaryDetails(md) ==
    NonEmpty(<<IF Strip(Get(md, "category", "")) # ""
               THEN "(" \o Strip(Get(md, "category", "")) \o ")" ELSE "",
               Strip(Get(md, "day", "")),
               Strip(Get(md, "time", "")),
               IF Strip(Get(md, "location", "")) # ""
               THEN "@" \o Strip(Get(md, "location", "")) ELSE "",
               IF Strip(Get(md, "contribution", "")) # ""
               THEN "| Contribution: " \o Strip(Get(md, "contribution", "")) ELSE "",
               IF DigitsOnly(Strip(Get(md, "phone", ""))) # ""
               THEN "| Ph: " \o DigitsOnly(Strip(Get(md, "phone", ""))) ELSE "">>)

\* lines 198-201: the title as a link to its own quoted text
SummaryLink(md) ==
    "- [**" \o Strip(Get(md, "title", "Event")) \o "**](#FETCH::"
    \o quote(Strip(Get(md, "title", "Event"))) \o ")"

\* lines 186-219
format_summary_line(md) ==
    Join(<<SummaryLink(md)>>
         \o (IF SummaryDetails(md) # <<>>
             THEN <<"|", Join(SummaryDetails(md), " ")>> ELSE <<>>),
         " ")

-----------------------------------------------------------------------------
(* app.py: streaming_chat as a generator, and the chats table it writes    *)

MsgNoResponse == "I apologize, but I couldn't generate a proper response. Please try again."
MsgError(e) == "I encountered an error: " \o e \o ". Please try again."

\* the content of an assistant message that is plain text
TextContent(t) == [kind |-> "text", text |-> t, lines |-> <<>>]

\* session_handler.save_message and SessionDBManager.save_message: one row
\* per message is inserted
save_message(rows, session_id, role, content) ==
    Append(rows, [session_id |-> session_id, role |-> role, content |-> content])

\* the route of lines 135-185: a session, and none of the direct commands
IsAgentRoute(session_id, q) ==
    /\ session_id \notin {"", "null"}
    /\ ~DETAILS_RE(q).ok
    /\ ~DIGITS_RE(q).ok
    /\ Lower(q) \notin SHOW_DAILY_ALIASES

\* RunStream with a response_text that holds the last delta only
RECURSIVE RunStream_LastDelta(_, _)
RunStream_LastDelta(evs, text) ==
    IF evs = <<>>
    THEN IF text # ""
         THEN [pc |-> "done", evs |-> evs, text |-> text, yield |-> <<>>,
               save |-> <<text>>]
         ELSE [pc |-> "173", evs |-> evs, text |-> text, yield |-> <<MsgNoResponse>>,
               save |-> <<>>]
    ELSE IF Head(evs).kind = "raise"
    THEN [pc |-> "184", evs |-> evs, text |-> text,
          yield |-> <<MsgError(Head(evs).text)>>, save |-> <<>>]
    ELSE IF Head(evs).kind = "ResponseTextDeltaEvent"
    THEN [pc |-> "164", evs |-> Tail(evs), text |-> Head(evs).text,
          yield |-> <<Head(evs).text>>, save |-> <<>>]
    ELSE RunStream_LastDelta(Tail(evs), text)

\* Lines 152-185 from the point where the events evs of the stream remain
\* and response_text is text, up to the next yield or the return: the
\* position reached (the line of the yield, or "done"), the events left,
\* response_text, the assistant text yielded and the one saved.
RECURSIVE RunStream(_, _)
RunStream(evs, text) ==
    IF evs = <<>>
    THEN IF text # ""
         THEN [pc |-> "done", evs |-> evs, text |-> text, yield |-> <<>>,
               save |-> <<text>>]
         ELSE [pc |-> "173", evs |-> evs, text |-> text, yield |-> <<MsgNoResponse>>,
               save |-> <<>>]
    ELSE IF Head(evs).kind = "raise"
    THEN [pc |-> "184", evs |-> evs, text |-> text,
          yield |-> <<MsgError(Head(evs).text)>>, save |-> <<>>]
    ELSE IF Head(evs).kind = "ResponseTextDeltaEvent"
    THEN [pc |-> "164", evs |-> Tail(evs), text |-> text \o Head(evs).text,
          yield |-> <<text \o Head(evs).text>>, save |-> <<>>]
    ELSE RunStream(Tail(evs), text)

\* the generator went on as r says: it yielded history + user + assistant
\* for a text in r.yield and saved the assistant message for one in r.save
Advance(r, rows) ==
    /\ pc' = r.pc
    /\ stream_events' = r.evs
    /\ response_text' = r.text
    /\ yields' = yields \o [k \in 1..Len(r.yield) |->
                               history' \o Messages(request'.q, TextContent(r.yield[k]))]
    /\ chats' = IF r.save = <<>> THEN rows
                ELSE save_message(rows, request'.session_id, "assistant",
                                  TextContent(r.save[1]))

\* lines 136-185: the user message is saved and the stream is read up to
\* the first yield
StartAgent(session_id, q, evs) ==
    /\ request' = [session_id |-> session_id, q |-> q]
    /\ route' = [to |-> "auroville_agent", id |-> "", start_number |-> ""]
    /\ Advance(RunStream(evs, ""), save_message(chats, session_id, "user", q))
    /\ UNCHANGED <<retriever, EVENT_DATA_STORE, search_locals, updated_history,
                   last_search>>

\* lines 82-133: the return without a session, or a direct command, which
\* saves both messages and then yields once (line 99, 114 or 132)
StartDirect(session_id, q) ==
    /\ Route(session_id, q)
    /\ UNCHANGED <<stream_events, response_text>>
    /\ pc' = IF updated_history' = <<>> THEN "done" ELSE "99"
    /\ yields' = IF updated_history' = <<>> THEN <<>>
                 ELSE <<history' \o updated_history'>>
    /\ chats' = IF updated_history' = <<>> THEN chats
                ELSE save_message(save_message(chats, session_id, "user", q),
                                  session_id, "assistant",
                                  updated_history'[2].content)

\* the call streaming_chat(question, h, session_id) read up to its first
\* item, the stream of the agent holding the events evs
StartChat(question, h, session_id, evs) ==
    /\ pc = "idle"
    /\ history' = h
    /\ IF IsAgentRoute(session_id, Strip(question))
       THEN StartAgent(session_id, Strip(question), evs)
       ELSE StartDirect(session_id, Strip(question))

\* what the steps of a suspended generator leave alone
stream_rest ==
    <<retriever, EVENT_DATA_STORE, search_locals, route, updated_history, href,
      textToSend, last_search, filter_vars, raw_time, sort_time, range_vars,
      card_vars, gradio_history>>

\* the consumer asks for the next item: the generator goes on after the
\* yield it is suspended at
NextItem ==
    /\ pc \in {"99", "164", "173", "184"}
    /\ UNCHANGED <<history, request, stream_rest>>
    /\ IF pc = "164" THEN Advance(RunStream(stream_events, response_text), chats)
       ELSE /\ pc' = "done"
            /\ UNCHANGED <<stream_events, response_text, yields>>
            /\ chats' = IF pc = "99" THEN chats
                        ELSE save_message(chats, request.session_id, "assistant",
                                          yields[Len(yields)][Len(yields[Len(yields)])].content)

\* the consumer stops reading: the generator is closed at the yield it is
\* suspended at and runs no further
StopReading ==
    /\ pc \in {"99", "164", "173", "184"}
    /\ pc' = "closed"
    /\ UNCHANGED <<history, request, stream_events, response_text, yields, chats,
                   stream_rest>>

-----------------------------------------------------------------------------
(* session_handler.py and db.py: load_chat_history                         *)

\* SessionDBManager.load_history: the role and content of the rows of the
\* session, in the order of their timestamps, which is that of the inserts
load_history(rows, session_id) ==
    [k \in 1..Len(SelectSeq(rows, LAMBDA r : r.session_id = session_id)) |->
        [role |-> SelectSeq(rows, LAMBDA r : r.session_id = session_id)[k].role,
         content |-> SelectSeq(rows, LAMBDA r : r.session_id = session_id)[k].content]]

\* lines 46-60: the loop from message k, with gradio_history and
\* current_pair as they are, and the final append
RECURSIVE PairUp(_, _, _, _)
PairUp(db_history, k, pairs, current_pair) ==
    IF k > Len(db_history)
    THEN IF current_pair[1] # "" \/ current_pair[2] # ""
         THEN Append(pairs, current_pair) ELSE pairs
    ELSE IF db_history[k].role = "user"
    THEN IF current_pair[1] # "" /\ current_pair[2] # ""
         THEN PairUp(db_history, k + 1, Append(pairs, current_pair),
                     <<db_history[k].content, "">>)
         ELSE PairUp(db_history, k + 1, pairs,
                     <<db_history[k].content, current_pair[2]>>)
    ELSE IF db_history[k].role = "assistant"
    THEN PairUp(db_history, k + 1, pairs, <<current_pair[1], db_history[k].content>>)
    ELSE PairUp(db_history, k + 1, pairs, current_pair)

\* lines 22-62
load_chat_history(rows, session_id) ==
    PairUp(load_history(rows, session_id), 1, <<>>, <<"", "">>)

-----------------------------------------------------------------------------
(* Specifications                                                          *)

Init ==
    /\ retriever = FALSE
    /\ EVENT_DATA_STORE = NoEntries
    /\ docs = <<>>
    /\ now = [date |-> Today, time |-> <<6, 0, 0, 0>>]
    /\ filtered = <<>>
    /\ category_buckets = NoEntries
    /\ sorted_group_items = <<>>
    /\ out_lines = <<>>
    /\ total_groups = 0
    /\ result = ""
    /\ ChatInit
    /\ FiltersInit
    /\ raw_time = ""
    /\ sort_time = <<>>
    /\ RangeIdle /\ raised = "" /\ CardIdle /\ StreamIdle /\ HistoryIdle

InitializeRetriever ==
    /\ \E loaded \in BOOLEAN : initialize_retriever(loaded)
    /\ UNCHANGED <<chat_vars, filter_vars, raw_time, sort_time, later_vars>>

Search ==
    /\ \E ds \in SeqsUpTo(CachePool, MaxCacheDocs), n \in Nows :
           search_auroville_events(ds, n)
    /\ UNCHANGED <<chat_vars, filter_vars, raw_time, sort_time, later_vars>>

Next == InitializeRetriever \/ Search

\* the process: the retriever is initialised at some point and searches run
\* one after the other against the shared cache
Spec == Init /\ [][Next]_vars

\* the first search after a successful start-up, over the larger pool
AfterStartup ==
    /\ retriever = TRUE
    /\ EVENT_DATA_STORE = NoEntries
    /\ docs = <<>>
    /\ now = [date |-> Today, time |-> <<6, 0, 0, 0>>]
    /\ filtered = <<>>
    /\ category_buckets = NoEntries
    /\ sorted_group_items = <<>>
    /\ out_lines = <<>>
    /\ total_groups = 0
    /\ result = ""
    /\ ChatInit
    /\ FiltersInit

\* no call of the functions modelled on their own
TimeIdle == raw_time = "" /\ sort_time = <<>>

InitSearch ==
    /\ AfterStartup
    /\ TimeIdle /\ RangeIdle /\ raised = "" /\ CardIdle /\ StreamIdle /\ HistoryIdle

FirstSearch ==
    /\ result = ""
    /\ \E ds \in SeqsUpTo(Pool, MaxDocs), n \in Nows : search_auroville_events(ds, n)
    /\ UNCHANGED <<chat_vars, filter_vars, raw_time, sort_time, later_vars>>

SpecSearch == InitSearch /\ [][FirstSearch]_vars

\* a user sends a text
Chat ==
    /\ href' = ""
    /\ textToSend' = ""
    /\ UNCHANGED <<filter_vars, raw_time, sort_time, later_vars>>
    /\ \E session_id \in SessionIds, question \in Questions :
           streaming_chat(question, session_id)

\* a user clicks a link of the last answer
Click ==
    /\ \E line \in WindowLinks : ClickOn(Href(line), attachClickHandlers(Href(line)))
    /\ UNCHANGED <<filter_vars, raw_time, sort_time, later_vars>>

NextChat == Chat \/ Click

\* the page after a successful start-up: requests of the sessions, one at a
\* time, against the shared cache
SpecChat == InitSearch /\ [][NextChat]_vars

DayNames == <<"Monday", "Tuesday", "Wednesday", "Thursday", "Friday", "Saturday",
              "Sunday">>

\* the days of year y before its month m
RECURSIVE DaysBeforeMonth(_, _)
DaysBeforeMonth(y, m) ==
    IF m = 1 THEN 0 ELSE DaysBeforeMonth(y, m - 1) + DaysInMonth(y, m - 1)

\* date.toordinal() for the year y (1 for 1 January of year 1, a Monday)
Ordinal(y, m, d) ==
    365 * (y - 1) + ((y - 1) \div 4) - ((y - 1) \div 100) + ((y - 1) \div 400)
        + DaysBeforeMonth(y, m) + d

\* dt.strftime("%A")
strftime_A(date) ==
    DayNames[((Ordinal(date \div 10000, (date \div 100) % 100, date % 100) + 6) % 7) + 1]

\* lines 242-258: the dict for the arguments, d being the date the format
\* loop of lines 245-254 parsed from filter_date (NoDate when none did)
FiltersFor(date_arg, day_arg, d) ==
    [k \in (IF date_arg # "" THEN {"date"} ELSE {})
              \cup (IF day_arg # "" \/ d # NoDate THEN {"day"} ELSE {}) |->
        IF k = "date" THEN date_arg
        ELSE IF day_arg # "" THEN day_arg
        ELSE strftime_A(d)]

SimpleFilters(date_arg, day_arg, year) ==
    FiltersFor(date_arg, day_arg,
               IF date_arg = "" THEN NoDate
               ELSE FirstParse(date_arg, FilterFormats, 1, year))

\* line 258: the entry for filter_location
WithLocation(filters, location_arg) ==
    IF location_arg # "" THEN filters @@ ("location" :> location_arg) ELSE filters

\* list(simple_filters.items()): the keys in the order of their insertion
FilterItems(filters) ==
    SelectSeq(<<"date", "day", "location">>, LAMBDA k : k \in DOMAIN filters)

\* {k: {"$eq": v}}
Equality(k, v) == k :> [eq |-> v]

\* the filter that holds only the first entry of simple_filters
ChromaFilter_FirstOnly(filters) ==
    IF DOMAIN filters = {} THEN NoEntries
    ELSE Equality(FilterItems(filters)[1], filters[FilterItems(filters)[1]])

\* lines 260-264
ChromaFilter(filters) ==
    IF Cardinality(DOMAIN filters) = 1
    THEN Equality(FilterItems(filters)[1], filters[FilterItems(filters)[1]])
    ELSE IF Cardinality(DOMAIN filters) > 1
    THEN "$or" :> [i \in 1..Len(FilterItems(filters)) |->
                     Equality(FilterItems(filters)[i], filters[FilterItems(filters)[i]])]
    ELSE NoEntries

\* the filter_date, filter_day and filter_location arguments of the
\* searches with filters
FilterDates ==
    {"November 14, 2025", "November 14", "14 November", "14 Nov", "14.11.25",
     "November 16", "this weekend", "February 30, 2025"}
FilterDays == {"", "Saturday"}
FilterLocations == {"", "Town Hall"}

\* a search called with filter arguments: the prologue of lines 239-268,
\* then retrieval and the rest of the call
FilteredSearch ==
    /\ result = ""
    /\ \E date_arg \in FilterDates \cup {""}, day_arg \in FilterDays,
          location_arg \in FilterLocations,
          ds \in SeqsUpTo(DatePool, MaxDateDocs), n \in Nows :
           /\ search_auroville_events(ds, n)
           /\ filter_date' = date_arg
           /\ filter_day' = day_arg
           /\ filter_location' = location_arg
           /\ simple_filters' =
                  IF retriever
                  THEN WithLocation(SimpleFilters(date_arg, day_arg, n.date \div 10000),
                                    location_arg)
                  ELSE NoEntries
           /\ chroma_filter' = ChromaFilter(simple_filters')
    /\ UNCHANGED <<chat_vars, raw_time, sort_time, later_vars>>

\* the first search after a successful start-up, called with filters
SpecDate == InitSearch /\ [][FilteredSearch]_vars

\* the time texts of the calls of parse_time_for_sort on its own: one token
\* built from an hour, a minute and a meridian text, a range with the
\* meridian after its end, and texts of other shapes
Hours == {"0", "7", "12", "13", "24", "99"}
Minutes == {"", ":00", ":30", ":75"}
Meridians == {"", "AM", "PM"}
RangeHours == {"7", "9", "11"}

TokenText(h, m, mer) == h \o m \o (IF mer = "" THEN "" ELSE " " \o mer)

RangeText(a, b, mer) == a \o "-" \o b \o " " \o mer

OtherTimes ==
    {"", " ", "Anytime", "open", "all day", "by appointment ~ call", "7^9 am",
     "7 am ~ 9", "noon-ish", "Room 5", "9.30", "100", "7:5", "12:60pm"}

TimeTexts ==
    {TokenText(h, m, mer) : h \in Hours, m \in Minutes, mer \in Meridians}
        \cup {RangeText(a, b, mer) : a \in RangeHours, b \in RangeHours,
                                     mer \in Meridians \ {""}}
        \cup OtherTimes

InitTime ==
    /\ AfterStartup
    /\ raw_time \in TimeTexts /\ sort_time = <<>>
    /\ RangeIdle /\ raised = "" /\ CardIdle /\ StreamIdle /\ HistoryIdle

\* parse_time_for_sort(raw_time) returns
ParseTime ==
    /\ sort_time = <<>>
    /\ sort_time' = parse_time_for_sort(raw_time)
    /\ UNCHANGED <<retriever, EVENT_DATA_STORE, search_locals, chat_vars, filter_vars,
                   raw_time, later_vars>>

\* parse_time_for_sort called on each of the time texts
SpecTime == InitTime /\ [][ParseTime]_vars

\* the date texts of the calls of parse_date_to_iso_range on its own: two
\* days of one month around a dash, single dates in the formats of the loop
\* with their ISO dates, year-less single dates, ranges of two full dates,
\* and texts that hold no date
RangeDays1 == {[text |-> "1", iso |-> "01"], [text |-> "17", iso |-> "17"]}
RangeDays2 == {[text |-> "28", iso |-> "28"], [text |-> "30", iso |-> "30"]}
RangeDashes == {"-", EnDash, EmDash, " - "}
RangeMonths == {[text |-> "November", iso |-> "11"], [text |-> "Nov", iso |-> "11"],
                [text |-> "March", iso |-> "03"]}

DayRangeText(d1, dash, d2, mo) == d1.text \o dash \o d2.text \o " " \o mo.text

SingleDates ==
    {[text |-> "November 14, 2025", iso |-> "2025-11-14"],
     [text |-> " November 14, 2025 ", iso |-> "2025-11-14"],
     [text |-> "14.11.25", iso |-> "2025-11-14"],
     [text |-> "14.11.2025", iso |-> "2025-11-14"],
     [text |-> "14 Nov 2025", iso |-> "2025-11-14"],
     [text |-> "14 November 2025", iso |-> "2025-11-14"],
     [text |-> "2025-11-14", iso |-> "2025-11-14"],
     [text |-> "February 29, 2024", iso |-> "2024-02-29"]}

YearlessSingles == {"November 14", "14 November", "14 Nov"}

TwoDateRanges ==
    {"November 17, 2025 - November 28, 2025", "17.11.25 to 28.11.25",
     "14 Nov 2025^20 Nov 2025", "Nov 17 - Nov 28", "2025-11-14 - 2025-11-20"}

DatelessTexts ==
    {"", " ", "TBA", "Every Monday", "Upcoming", "17-28", "31-32 November",
     "February 30, 2025", "17 to 28", "117-28 November", "17-28 Nov.", "1-2-3"}

RangeTexts ==
    {DayRangeText(d1, dash, d2, mo) :
         d1 \in RangeDays1, dash \in RangeDashes, d2 \in RangeDays2, mo \in RangeMonths}
        \cup {sd.text : sd \in SingleDates}
        \cup YearlessSingles \cup TwoDateRanges \cup DatelessTexts

InitRange ==
    /\ AfterStartup
    /\ range_arg \in RangeTexts /\ iso_range = <<>>
    /\ TimeIdle /\ raised = "" /\ CardIdle /\ StreamIdle /\ HistoryIdle

\* parse_date_to_iso_range(range_arg) returns
ParseRange ==
    /\ iso_range = <<>>
    /\ iso_range' = parse_date_to_iso_range(range_arg, Today \div 10000)
    /\ UNCHANGED <<retriever, EVENT_DATA_STORE, search_locals, chat_vars, filter_vars,
                   raw_time, sort_time, range_arg, card_vars, stream_vars,
                   chats, gradio_history>>

\* parse_date_to_iso_range called on each of the date texts
SpecRange == InitRange /\ [][ParseRange]_vars

\* a search whose retrieval returns records without a title
NullSearch ==
    /\ result = "" /\ raised = ""
    /\ \E ds \in SeqsUpTo(NullPool, MaxNullDocs), n \in Nows :
           search_auroville_events(ds, n)
    /\ UNCHANGED <<chat_vars, filter_vars, raw_time, sort_time, later_vars>>

\* a search whose retrieval fails
FailedRetrieval ==
    /\ result = "" /\ raised = ""
    /\ \E n \in Nows : RetrievalRaises(n)
    /\ UNCHANGED <<chat_vars, filter_vars, raw_time, sort_time, later_vars>>

NextRaise == NullSearch \/ FailedRetrieval

\* the first search after a successful start-up, with its failures
SpecRaise == InitSearch /\ [][NextRaise]_vars

\* the calls of streaming_chat as a generator: sessions, questions of each
\* route, the history handed in and the events of the agent's stream (text
\* deltas, an empty delta, another event, and an exception raised by the
\* stream)
StreamSessions == {"A", "", "null"}
StreamQuestions == {"2", "details(2)", " Show Daily Events ", "yoga today"}
Histories == {<<>>, Messages("hello", TextContent("Hi"))}
StreamEvents ==
    {[kind |-> "ResponseTextDeltaEvent", text |-> "Yoga"],
     [kind |-> "ResponseTextDeltaEvent", text |-> " at 7"],
     [kind |-> "ResponseTextDeltaEvent", text |-> ""],
     [kind |-> "ResponseCreatedEvent", text |-> ""],
     [kind |-> "raise", text |-> "timeout"]}
MaxEvents == 3

\* a call of streaming_chat, read up to its first item
FirstItem ==
    /\ \E question \in StreamQuestions, h \in Histories,
          session_id \in StreamSessions, evs \in SeqsUpTo(StreamEvents, MaxEvents) :
           StartChat(question, h, session_id, evs)
    /\ UNCHANGED <<href, textToSend, filter_vars, raw_time, sort_time, range_vars,
                   card_vars, gradio_history>>

NextStream == FirstItem \/ NextItem \/ StopReading

\* one chat turn and its consumer, which reads on or stops at every yield
SpecStream == InitSearch /\ [][NextStream]_vars


\* the records format_event_card and format_summary_line are called with:
\* every field empty or set, a title that is missing, a phone without
\* digits, a location in spaces, and a description that is empty or blank
CardTitles == {[k \in {} |-> ""], [title |-> "Yoga"]}
CardCategories == {"", "Weekly"}
CardDays == {"", "Monday"}
CardDates == {"", "14.11.2025"}
CardTimes == {"", "7 AM"}
CardLocations == {"", " Hall "}
CardContributions == {"", "Free"}
CardContacts == {"", "Anna"}
CardPhones == {"", "+91 98765", "ask"}
CardPosters == {"", "http://x/p.png"}
CardContents == {"", "  ", "Asanas."}

CardMetadata ==
    {t @@ [category |-> c, day |-> d, date |-> dt, time |-> tm]
       @@ [location |-> l, contribution |-> cb, contact |-> ct, phone |-> ph,
           poster_url |-> po] :
        t \in CardTitles, c \in CardCategories, d \in CardDays, dt \in CardDates,
        tm \in CardTimes, l \in CardLocations, cb \in CardContributions,
        ct \in CardContacts, ph \in CardPhones, po \in CardPosters}

InitCard ==
    /\ AfterStartup
    /\ doc_metadata \in CardMetadata /\ doc_content \in CardContents
    /\ card_text = "" /\ summary_text = ""
    /\ TimeIdle /\ raised = "" /\ RangeIdle /\ StreamIdle /\ HistoryIdle

card_rest ==
    <<retriever, EVENT_DATA_STORE, search_locals, chat_vars, filter_vars, raw_time,
      sort_time, range_vars, doc_metadata, doc_content, stream_vars, chats,
      gradio_history>>

\* format_event_card(doc_metadata, doc_content) returns
FormatCard ==
    /\ card_text = ""
    /\ card_text' = format_event_card(doc_metadata, doc_content)
    /\ UNCHANGED <<summary_text, card_rest>>

\* format_summary_line(doc_metadata) returns
FormatSummary ==
    /\ summary_text = ""
    /\ summary_text' = format_summary_line(doc_metadata)
    /\ UNCHANGED <<card_text, card_rest>>

NextCard == FormatCard \/ FormatSummary

\* the two formatters called on each of the records
SpecCard == InitCard /\ [][NextCard]_vars


\* the messages saved and the sessions loaded
HistorySessions == {"A", "B"}
Roles == {"user", "assistant"}
Contents == {"hello", "Hi"}
MaxRows == 3

history_rest ==
    <<retriever, EVENT_DATA_STORE, search_locals, route, updated_history, href,
      textToSend, last_search, filter_vars, raw_time, sort_time, range_vars,
      card_vars, stream_vars>>

\* save_message(session_id, role, content) for a message of a session
SaveMessage ==
    /\ Len(chats) < MaxRows
    /\ \E session_id \in HistorySessions, role \in Roles, content \in Contents :
           chats' = save_message(chats, session_id, role, content)
    /\ UNCHANGED <<request, gradio_history, history_rest>>

\* load_chat_history(session_id) returns
LoadHistory ==
    /\ \E session_id \in HistorySessions :
           /\ request' = [session_id |-> session_id, q |-> ""]
           /\ gradio_history' = load_chat_history(chats, session_id)
    /\ UNCHANGED <<chats, history_rest>>

NextHistory == SaveMessage \/ LoadHistory

\* messages saved one by one, in any order of roles, and histories loaded
SpecHistory == InitSearch /\ [][NextHistory]_vars


-----------------------------------------------------------------------------
(* Properties of the cache                                                 *)

\* the last search returned the list of groups
Rendered == result \notin {"", MsgInitializing, MsgNoDocs, MsgNoneLeft}

\* the links of the text the last search returned
Links == {out_lines[i] : i \in {k \in 1..Len(out_lines) : out_lines[k].kind = "link"}}

\* the positions (in docs) of the records the last search kept
Kept == {filtered[k] : k \in 1..Len(filtered)}

\* C1: after a search that renders results, every reference key in a link of
\* the returned text is a key of EVENT_DATA_STORE, and the document stored
\* under it carries the title rendered in that link.
C1_RenderedKeysResolve ==
    Rendered =>
        \A l \in Links :
            /\ l.key \in DOMAIN EVENT_DATA_STORE
            /\ EVENT_DATA_STORE[l.key].title = l.title

\* a search has rendered two groups of one category and a group of another
C1_Witness ==
    /\ Rendered
    /\ \E i, j \in 1..Len(sorted_group_items) :
           /\ i # j
           /\ sorted_group_items[i].cat = sorted_group_items[j].cat
    /\ Cardinality({l.key : l \in Links}) >= 2

\* C2: after a search that renders results, the keys of EVENT_DATA_STORE are
\* exactly the keys that search rendered; nothing of an earlier search is left.
C2_StoreIsLastRendering ==
    Rendered => DOMAIN EVENT_DATA_STORE = {l.key : l \in Links}

\* a search has rendered a single group, so that any other key would be a
\* leftover of an earlier search
C2_Witness ==
    /\ Rendered
    /\ Cardinality(Links) = 1
    /\ Cardinality(DOMAIN EVENT_DATA_STORE) = 1

\* C3: a search that reached retrieval and ended with a "couldn't find"
\* message (no hits, or every hit filtered out) has cleared the cache, so no
\* entry of an earlier search can be looked up after it.
C3_ClearedWhenNothingFound ==
    result \in {MsgNoDocs, MsgNoneLeft} => EVENT_DATA_STORE = NoEntries

-----------------------------------------------------------------------------
(* Properties of the filter loop                                           *)

\* the records at positions i and j of the retrieval share the dedup key
SameKey(i, j) == DedupKeyOf[docs[i]] = DedupKeyOf[docs[j]]

\* the record at position i is one the past-event test of the last search skips
Past(i) == now \in PastOf[docs[i]]

\* the text after the last "-" of a date text (the last day of "10-12 November")
AfterDash(text) ==
    LET dashes == {k \in 1..Len(text) : Ch(text, k) = "-"}
    IN  IF dashes = {} THEN text
        ELSE Strip(SubSeq(text, (CHOOSE k \in dashes : \A m \in dashes : m <= k) + 1,
                          Len(text)))

\* the date that the text t gives under one of the formats, NoDate if none
DateUnder(t, formats) ==
    LET found == {strptime_date(t, formats[k]) : k \in 1..Len(formats)} \ {NoDate}
    IN  IF found = {} THEN NoDate ELSE CHOOSE d \in found : TRUE

\* the end date a date text states: a date with a year, a date without a
\* year in the given year, or the last day of a range in the given year
StatedEndDate(text, year) ==
    OrElse(DateUnder(AfterDash(Strip(text)), <<"%B %d, %Y", "%d.%m.%y", "%d.%m.%Y">>),
           DateUnder(AfterDash(Strip(text)) \o ", " \o IntToStr(year),
                     <<"%B %d, %Y", "%d %B, %Y", "%d %b, %Y">>))

StatedEndDateOf == [r \in Records |-> StatedEndDate(r.date, Today \div 10000)] @@ <<>>

\* C4: a retrieved record whose date text states an end date strictly before
\* the day of the search (with a year, without a year in the current year,
\* or as a range) is not among the records the search keeps.
C4_PastDatedNeverKept ==
    \A i \in 1..Len(docs) :
        (StatedEndDateOf[docs[i]] # NoDate /\ StatedEndDateOf[docs[i]] < now.date)
            => i \notin Kept

\* C5: a retrieved record whose date the filter resolves to the day of the
\* search is dropped when the start time parsed from its time text is earlier
\* than the time of the search, and otherwise is kept (unless an earlier kept
\* record has its dedup key).
C5_SameDayByStartTime ==
    \A i \in 1..Len(docs) :
        (DateSpecificOf[docs[i]] /\ EventDateOf[docs[i]] = now.date) =>
            IF TimeLT(StartTimeOf[docs[i]], now.time)
            THEN i \notin Kept
            ELSE i \in Kept \/ \E j \in Kept : j < i /\ SameKey(i, j)

\* one search met a record of today that had started and a record of today
\* that had not: the first is dropped, the second kept
C5_Witness ==
    \E i, j \in 1..Len(docs) :
        /\ EventDateOf[docs[i]] = now.date /\ EventDateOf[docs[j]] = now.date
        /\ TimeLT(StartTimeOf[docs[i]], now.time) /\ i \notin Kept
        /\ ~TimeLT(StartTimeOf[docs[j]], now.time) /\ j \in Kept

\* C6: a retrieved record without a resolvable date (date empty or a
\* placeholder) is never dropped by the past-event test: it is kept unless an
\* earlier kept record has its dedup key.
C6_UndatedNeverExpires ==
    \A i \in 1..Len(docs) :
        ~DateSpecificOf[docs[i]] =>
            i \in Kept \/ \E j \in Kept : j < i /\ SameKey(i, j)

\* a search on Monday 17 November at 08:00 kept a Monday record whose start
\* time had passed and a record with a placeholder date
C6_Witness ==
    /\ now.date = MakeDate(2025, 11, 17)
    /\ \E i, j \in Kept :
           /\ docs[i].date = "" /\ docs[i].day = "Monday"
           /\ TimeLT(StartTimeOf[docs[i]], now.time)
           /\ docs[j].date # "" /\ ~DateSpecificOf[docs[j]]

\* the positions of the retrieval that share the dedup key of position i
Duplicates(i) == {k \in 1..Len(docs) : SameKey(i, k)}

\* C7 as stated: of two or more retrieved records with the same (title, date,
\* day), exactly one is kept.
C7_ExactlyOneKept ==
    \A i \in 1..Len(docs) :
        Cardinality(Duplicates(i)) >= 2 => Cardinality(Duplicates(i) \cap Kept) = 1

\* C7: of two or more retrieved records with the same (title, date, day), at
\* most one is kept, and exactly one when at least one of them is not skipped
\* as a past event.
C7_OneKeptUnlessAllPast ==
    \A i \in 1..Len(docs) :
        Cardinality(Duplicates(i)) >= 2 =>
            /\ Cardinality(Duplicates(i) \cap Kept) <= 1
            /\ (\E k \in Duplicates(i) : ~Past(k))
                   => Cardinality(Duplicates(i) \cap Kept) = 1

\* the retrieval held the same upcoming record three times and one copy is kept
C7_Witness ==
    /\ Len(docs) = 3
    /\ Duplicates(1) = {1, 2, 3}
    /\ ~Past(1)
    /\ Cardinality(Kept) = 1

\* C8 as stated: a kept record is the first of the retrieved records with
\* its dedup key.
C8_FirstOfKeyKept ==
    \A j \in Kept : ~\E i \in 1..Len(docs) : i < j /\ SameKey(i, j)

\* C8: the record kept for a dedup key is the first in retrieval order that
\* is not skipped as a past event; every other record with the key is dropped.
C8_FirstUpcomingOfKeyKept ==
    \A j \in 1..Len(docs) :
        j \in Kept <=>
            /\ ~Past(j)
            /\ ~\E i \in 1..Len(docs) : i < j /\ SameKey(i, j) /\ ~Past(i)

\* two records with one key and different time texts: the first had started
\* and is dropped, the second is kept
C8_Witness ==
    \E i, j \in 1..Len(docs) :
        /\ i < j /\ SameKey(i, j)
        /\ docs[i].time # docs[j].time
        /\ Past(i) /\ j \in Kept

-----------------------------------------------------------------------------
(* Properties of the rendered order                                        *)

\* the parsed start time of the record at position i of the retrieval
TimeAt(i) == SortTimeOf[docs[i]]

\* the list of positions is in ascending order of parsed start time
Ascending(items) ==
    \A k, l \in 1..Len(items) : k < l => ~TimeLT(TimeAt(items[l]), TimeAt(items[k]))

\* the earliest parsed start time in the group
EarliestOf(group) == MinTime(group.items, [i \in 1..Len(docs) |-> TimeAt(i)])

\* C9 as stated: of two events rendered in one category, the one listed
\* first has no later parsed start time (the sentinel being the latest time),
\* across the groups the events are merged into.
C9_EventsAscendInCategory ==
    \A g, h \in 1..Len(sorted_group_items) :
        (g <= h /\ sorted_group_items[g].cat = sorted_group_items[h].cat) =>
            \A k \in 1..Len(sorted_group_items[g].items),
               l \in 1..Len(sorted_group_items[h].items) :
                (g < h \/ k < l) =>
                    ~TimeLT(TimeAt(sorted_group_items[h].items[l]),
                            TimeAt(sorted_group_items[g].items[k]))

\* C9: every category bucket is in ascending order of parsed start time (the
\* sentinel last); as rendered, the events inside a group ascend and the
\* groups of a category ascend by their earliest event.
C9_GroupsAscendByEarliest ==
    /\ \A cat \in DOMAIN category_buckets : Ascending(category_buckets[cat])
    /\ \A g \in 1..Len(sorted_group_items) : Ascending(sorted_group_items[g].items)
    /\ \A g, h \in 1..Len(sorted_group_items) :
           (g < h /\ sorted_group_items[g].cat = sorted_group_items[h].cat) =>
               ~TimeLT(EarliestOf(sorted_group_items[h]),
                       EarliestOf(sorted_group_items[g]))

\* a category rendered with a group of two events followed by a group whose
\* event starts between them, retrieved in an order that is not ascending
C9_Witness ==
    /\ ~Ascending([i \in 1..Len(docs) |-> i])
    /\ \E g, h \in 1..Len(sorted_group_items) :
           /\ g < h
           /\ sorted_group_items[g].cat = sorted_group_items[h].cat
           /\ Len(sorted_group_items[g].items) = 2
           /\ TimeLT(TimeAt(sorted_group_items[h].items[1]),
                     TimeAt(sorted_group_items[g].items[2]))

\* the categories of the header lines of the returned text, in order
Headers == SelectSeq(out_lines, LAMBDA l : l.kind = "header")

\* the place of a category in the fixed order
Rank(cat) == CHOOSE c \in 1..Len(categories) : categories[c] = cat

\* C10: the buckets are the three fixed categories, every kept record is in
\* exactly one of them, and the returned text lists the categories in the
\* order Date-specific, Weekday-based, Appointment/Daily-based.
C10_ThreeCategoriesInOrder ==
    Rendered =>
        /\ DOMAIN category_buckets = {categories[c] : c \in 1..Len(categories)}
        /\ \A i \in Kept :
               Cardinality({<<cat, k>> \in (DOMAIN category_buckets) \X (1..Len(docs)) :
                               /\ k <= Len(category_buckets[cat])
                               /\ category_buckets[cat][k] = i}) = 1
        /\ \A p, q \in 1..Len(Headers) :
               /\ Headers[p].cat \in DOMAIN category_buckets
               /\ p < q => Rank(Headers[p].cat) < Rank(Headers[q].cat)

\* all three categories are rendered, one of them holding a record whose
\* category text names none of them
C10_Witness ==
    /\ Rendered
    /\ Len(Headers) = 3
    /\ \E i \in Kept : docs[i].category = "Workshop"

-----------------------------------------------------------------------------
(* Properties of the classification                                        *)

\* the category of the bucket that holds the kept record at position i
BucketOf(i) ==
    CHOOSE cat \in DOMAIN category_buckets :
        \E k \in 1..Len(category_buckets[cat]) : category_buckets[cat][k] = i

\* the substrings by which a category text names a category
CategoryWords == {"date", "week", "daily", "appoint", "everyday"}

\* a category text names one of the categories
Recognizable(text) == \E w \in CategoryWords : Contains(w, Lower(text))

WeekdayNames == {"monday", "tuesday", "wednesday", "thursday", "friday",
                 "saturday", "sunday"}

\* a day text names a weekday
NamesWeekday(day) == \E w \in WeekdayNames : Contains(w, Lower(day))

\* the derived rule as stated: a date that is present and no placeholder,
\* then a day that names a weekday, then the daily category
DerivedCategory(doc) ==
    IF Lower(Strip(doc.date)) \notin {"", "n/a", "upcoming", "none"}
    THEN "Date-specific"
    ELSE IF NamesWeekday(doc.day) THEN "Weekday-based"
    ELSE "Appointment/Daily-based"

\* C11: a kept record whose category text names no category is Date-specific
\* if its date is present and not a placeholder, otherwise Weekday-based only
\* if its day names a weekday, otherwise Appointment/Daily-based; so a record
\* with no date and a day text that is no weekday name is
\* Appointment/Daily-based.
C11_DerivedRule ==
    Rendered =>
        \A i \in Kept :
            ~Recognizable(docs[i].category) => BucketOf(i) = DerivedCategory(docs[i])

\* the category the text names, the more specific words first
DenotedCategory(text) ==
    IF Contains("week", Lower(text)) THEN "Weekday-based"
    ELSE IF \E w \in {"daily", "appoint", "everyday"} : Contains(w, Lower(text))
    THEN "Appointment/Daily-based"
    ELSE "Date-specific"

\* C12: a kept record whose category text contains one of the words is in
\* the category the word denotes whatever its date and day are, and a text
\* that says weekly or daily is never put under Date-specific.
C12_ExplicitCategoryWins ==
    Rendered =>
        \A i \in Kept :
            Recognizable(docs[i].category) =>
                BucketOf(i) = DenotedCategory(docs[i].category)

-----------------------------------------------------------------------------
(* Properties of the chat routing                                          *)

\* the step is a request: a text a user sent, or one a click submitted
IsRequest == href' = "" \/ textToSend' # ""

\* the number text of a question of the form N or details(N), whitespace
\* around it and inside the parentheses set aside
NumberText(q) ==
    IF StartsAt(Lower(Strip(q)), 1, "details(") /\ Ch(q, Len(Strip(q))) = ")"
    THEN Strip(SubSeq(Strip(q), 9, Len(Strip(q)) - 1))
    ELSE Strip(q)

\* the text writes an integer, with or without a sign
IsIntegerText(t) == IsIntKey(t) \/ (Len(t) > 1 /\ Ch(t, 1) = "-" /\ IsIntKey(Tail(t)))

\* the integer a number text writes, in canonical decimal form
Canonical(t) ==
    IF IsIntKey(t) THEN IntToStr(StrToInt(t)) ELSE "-" \o IntToStr(StrToInt(Tail(t)))

\* the request of the step went to the detail lookup for n and nowhere else:
\* the cache is as before and the answer is the card (or the miss) for n
DetailLookupFor(n) ==
    /\ route'.to = "get_event_details"
    /\ route'.id = n
    /\ EVENT_DATA_STORE' = EVENT_DATA_STORE
    /\ UNCHANGED <<search_locals, last_search>>
    /\ updated_history' = Messages(request'.q, render_detail_card(EVENT_DATA_STORE, n))

\* C13 as stated: for every integer N, a request N or details(N), in any
\* letter case and with optional whitespace, goes to the detail lookup for
\* N, never to the agent, leaves the cache unchanged, and both forms get the
\* same answer.
C13_EveryIntegerRouted ==
    [][(/\ IsRequest
        /\ request'.session_id \notin {"", "null"}
        /\ IsIntegerText(NumberText(request'.q)))
       => DetailLookupFor(Canonical(NumberText(request'.q)))]_vars

\* C13 (amended): the same for every N written with digits only.
C13_EveryNaturalRouted ==
    [][(/\ IsRequest
        /\ request'.session_id \notin {"", "null"}
        /\ IsIntKey(NumberText(request'.q)))
       => DetailLookupFor(Canonical(NumberText(request'.q)))]_vars

\* a details(N) request in capitals and with whitespace got the card of a
\* cached entry
C13_Witness ==
    /\ request.q = "DETAILS( 2 )"
    /\ route.to = "get_event_details"
    /\ updated_history # <<>>
    /\ updated_history[2].content.kind = "card"

\* the keys the step added to the cache
NewKeys == (DOMAIN EVENT_DATA_STORE') \ (DOMAIN EVENT_DATA_STORE)

\* C14: a show-daily phrase in any letter case goes to the daily-events
\* request with the largest cache key as start number, 0 for the empty cache;
\* the request leaves every entry of the cache as it was, and the entries it
\* adds are numbered start number + 1, + 2, ... without a gap.
C14_ShowDailyAppends ==
    [][(/\ IsRequest
        /\ request'.session_id \notin {"", "null"}
        /\ Lower(request'.q) \in SHOW_DAILY_ALIASES)
       => /\ route'.to = "get_daily_events"
          /\ route'.start_number = last_index(DOMAIN EVENT_DATA_STORE)
          /\ IsIntKey(route'.start_number)
          /\ \A key \in DOMAIN EVENT_DATA_STORE :
                 /\ key \in DOMAIN EVENT_DATA_STORE'
                 /\ EVENT_DATA_STORE'[key] = EVENT_DATA_STORE[key]
          /\ NewKeys = {IntToStr(StrToInt(route'.start_number) + k) :
                            k \in 1..Cardinality(NewKeys)}]_vars

\* the reference of a link target: the text after the scheme
Reference(h) == SubSeq(h, Len("#FETCH::") + 1, Len(h))

\* C15: the reference of every link a search renders is the key of the
\* cached record, and a click on the link (the page's listener, then the
\* routing of the text it submits) looks that key up and gets the record
\* rendered in the link.
C15_LinkLookupRoundTrip ==
    [][(href' # "" /\ StartsAt(href', 1, "#FETCH::"))
       => /\ Reference(href') \in DOMAIN EVENT_DATA_STORE
          /\ textToSend' # ""
          /\ route'.to = "get_event_details"
          /\ updated_history' # <<>>
          /\ updated_history'[2].content =
                 [kind |-> "card", doc |-> EVENT_DATA_STORE[Reference(href')]]]_vars

\* the keys of the links among lines
ListedKeys(lines) ==
    {lines[k].key : k \in {j \in 1..Len(lines) : lines[j].kind \in {"link", "details"}}}

\* C16: the cache is one mapping for all sessions.  A detail request is
\* resolved against the entries of the search that ran last, whichever
\* session ran it: those of session B when B searched after A, and with a
\* single session those of that session's latest search.
C16_ResolvesAgainstLatestSearch ==
    [][(IsRequest /\ route'.to = "get_event_details")
       => DOMAIN EVENT_DATA_STORE = ListedKeys(last_search.lines)]_vars

-----------------------------------------------------------------------------
(* Properties of parse_time_for_sort                                       *)

\* a datetime.time value
IsTimeOfDay(t) == Len(t) = 4 /\ t[1] \in 0..23 /\ t[2] \in 0..59 /\ t[3] \in 0..59

\* C17: parse_time_for_sort is total: for every text (empty, garbage,
\* Unicode dashes, digit groups of any value) it returns a time of day and
\* never raises, and a text with no time in it, such as "Anytime", "open" or
\* "all day", gives the sentinel 23:59:59.
C17_Total ==
    sort_time # <<>> =>
        /\ IsTimeOfDay(sort_time)
        /\ (DigitsOnly(raw_time) = "" \/ Contains("ANYTIME", Upper(raw_time)))
               => sort_time = SentinelTime

\* digit groups that are no time of day gave the sentinel
C17_Witness == raw_time = "99:75 PM" /\ sort_time = SentinelTime

\* C18: for a range with the meridian after the second number only, such as
\* "7-9 AM" or "7-9 PM", the result is the start of the range with that
\* meridian: 07:00 for "7-9 AM".
C18_RangeStart ==
    \A a \in RangeHours, b \in RangeHours, mer \in Meridians \ {""} :
        (raw_time = RangeText(a, b, mer) /\ sort_time # <<>>)
            => sort_time = <<Hour24(StrToInt(a), mer), 0, 0, 0>>

\* the minute a minute text writes
MinuteValue(m) == IF m = "" THEN 0 ELSE StrToInt(Tail(m))

\* C19 as stated: the result is the sentinel whenever the hour of the token,
\* after the 12-hour adjustment, is above 23 or its minute is above 59.
C19_OutOfRangeIsSentinel ==
    \A h \in Hours, m \in Minutes, mer \in Meridians :
        (/\ raw_time = TokenText(h, m, mer)
         /\ sort_time # <<>>
         /\ Hour24(StrToInt(h), mer) > 23 \/ MinuteValue(m) > 59)
            => sort_time = SentinelTime

\* C19 (amended): the result is the sentinel whenever the adjusted hour is
\* above 23; with an hour in range and a minute above 59 it is that hour
\* with minute 0; otherwise it is the hour and minute of the token.
C19_HourSentinelMinuteZero ==
    \A h \in Hours, m \in Minutes, mer \in Meridians :
        (raw_time = TokenText(h, m, mer) /\ sort_time # <<>>)
            => sort_time =
                   IF Hour24(StrToInt(h), mer) > 23 THEN SentinelTime
                   ELSE IF MinuteValue(m) > 59 THEN <<Hour24(StrToInt(h), mer), 0, 0, 0>>
                   ELSE <<Hour24(StrToInt(h), mer), MinuteValue(m), 0, 0>>

\* a minute above 59 with an hour in range gave the hour with minute 0
C19_Witness == raw_time = "7:75 AM" /\ sort_time = <<7, 0, 0, 0>>

-----------------------------------------------------------------------------
(* Properties of the date parsing                                          *)

\* date texts without a year, with the month and day they write
YearlessDates ==
    {[text |-> "November 14", month |-> 11, day |-> 14],
     [text |-> "14 November", month |-> 11, day |-> 14],
     [text |-> "14 Nov", month |-> 11, day |-> 14],
     [text |-> "November 16", month |-> 11, day |-> 16]}

\* the day y writes, in the year of the clock reading
ThisYear(y) == MakeDate(now.date \div 10000, y.month, y.day)

\* C20: a date text without a year is read as that day of the current year:
\* a search called with it as filter_date filters on that day's weekday, and
\* a retrieved record dated with it is dropped once that day is past.
C20_YearlessIsThisYear ==
    \A y \in YearlessDates :
        /\ (result # "" /\ filter_date = y.text /\ filter_day = "")
               => /\ "day" \in DOMAIN simple_filters
                  /\ simple_filters["day"] = strftime_A(ThisYear(y))
        /\ \A i \in 1..Len(docs) :
               (docs[i].date = y.text /\ ThisYear(y) < now.date) => i \notin Kept

-----------------------------------------------------------------------------
(* Properties of parse_date_to_iso_range                                   *)

\* C21: a text D1-D2 Month, with any of the three dashes, gives the ISO
\* dates of D1 Month and D2 Month of the current year; a single date gives
\* the same start and end; a text that holds no date gives ("", "").
C21_DayRangeOfThisYear ==
    iso_range # <<>> =>
        /\ \A d1 \in RangeDays1, dash \in RangeDashes, d2 \in RangeDays2,
              mo \in RangeMonths :
               range_arg = DayRangeText(d1, dash, d2, mo) =>
                   iso_range = <<"2025-" \o mo.iso \o "-" \o d1.iso,
                                 "2025-" \o mo.iso \o "-" \o d2.iso>>
        /\ \A sd \in SingleDates : range_arg = sd.text => iso_range = <<sd.iso, sd.iso>>
        /\ range_arg \in DatelessTexts => iso_range = <<"", "">>

-----------------------------------------------------------------------------
(* Properties of the failure paths of search_auroville_events              *)

\* C22: a call made while the retriever is not initialized returns the
\* "still initializing" message, raises nothing, retrieves nothing and
\* leaves EVENT_DATA_STORE as it was.
C22_NotInitialized ==
    [][(~retriever /\ ~retriever') =>
           /\ result' = MsgInitializing
           /\ raised' = ""
           /\ docs' = <<>>
           /\ EVENT_DATA_STORE' = EVENT_DATA_STORE]_vars

\* a call was made before the retriever was initialized
C22_Witness == ~retriever /\ result = MsgInitializing

\* C23: every call of search_auroville_events returns a string; a failure
\* of the retrieval or of the handling of a retrieved record, records with
\* missing or null fields included, never leaves the call as an exception.
C23_NeverRaises == raised = "" /\ (docs # <<>> => result # "")

-----------------------------------------------------------------------------
(* Properties of the streamed chat turn                                    *)

\* b begins with a
IsPrefix(a, b) == Len(a) <= Len(b) /\ SubSeq(b, 1, Len(a)) = a

\* the text of the assistant entry that ends the k-th yielded history
YieldedText(ys, k) == ys[k][Len(ys[k])].content.text

\* the yielded history y is h followed by the user message q and one
\* assistant entry
IsTurnOf(y, h, q) ==
    /\ Len(y) = Len(h) + 2
    /\ SubSeq(y, 1, Len(h)) = h
    /\ y[Len(h) + 1] = [role |-> "user", content |-> q]
    /\ y[Len(h) + 2].role = "assistant"

\* the text of the error message of the except clause
IsErrorText(t) == StartsAt(t, 1, "I encountered an error: ")

\* C24: on the LLM path every yielded history is the input history plus the
\* user message plus one assistant entry, whose text extends the text
\* yielded before it; a failure of the stream produces exactly one yield,
\* which carries the error message, and nothing is yielded after it.
C24_StreamYields ==
    [][route'.to = "auroville_agent" =>
           /\ \A k \in 1..Len(yields') : IsTurnOf(yields'[k], history', request'.q)
           /\ \A k \in 1..(Len(yields') - 1) :
                  \/ IsPrefix(YieldedText(yields', k), YieldedText(yields', k + 1))
                  \/ /\ k + 1 = Len(yields')
                     /\ IsErrorText(YieldedText(yields', k + 1))
           /\ (pc' = "184" /\ pc # "184") =>
                  /\ Len(yields') = Len(yields) + 1
                  /\ YieldedText(yields', Len(yields')) = MsgError("timeout")
                  /\ \A k \in 1..Len(yields) : ~IsErrorText(YieldedText(yields, k))
           /\ pc \in {"173", "184"} => yields' = yields]_vars

\* the stream failed after two growing texts had been yielded
C24_Witness ==
    /\ pc = "184"
    /\ Len(yields) = 3
    /\ YieldedText(yields, 1) = "Yoga"
    /\ YieldedText(yields, 2) = "Yoga at 7"
    /\ YieldedText(yields, 3) = MsgError("timeout")

-----------------------------------------------------------------------------
(* Properties of the formatters                                            *)

\* the place of the first line feed of s at or after i, or Len(s) + 1
LineEnd(s, i) ==
    IF \E j \in i..Len(s) : Ch(s, j) = "\n"
    THEN CHOOSE j \in i..Len(s) :
             Ch(s, j) = "\n" /\ \A k \in i..(j - 1) : Ch(s, k) # "\n"
    ELSE Len(s) + 1

\* s[i:].split("\n")
RECURSIVE SplitLinesFrom(_, _)
SplitLinesFrom(s, i) ==
    <<SubSeq(s, i, LineEnd(s, i) - 1)>>
    \o (IF LineEnd(s, i) > Len(s) THEN <<>> ELSE SplitLinesFrom(s, LineEnd(s, i) + 1))

SplitLines(s) == SplitLinesFrom(s, 1)

CardLabels ==
    <<"**Event Name:**", "**Category:**", "**When:**", "**Where:**",
      "**Contribution:**", "**Contact:**", "**Description:**", "![Event Poster]">>

\* the first line of L that starts with label, or 0
LabelPos(L, label) ==
    IF \E i \in 1..Len(L) : StartsAt(L[i], 1, label)
    THEN CHOOSE i \in 1..Len(L) :
             /\ StartsAt(L[i], 1, label)
             /\ \A j \in 1..(i - 1) : ~StartsAt(L[j], 1, label)
    ELSE 0

\* the card L has the field named label exactly when present holds
EmittedIff(L, label, present) == (LabelPos(L, label) > 0) <=> present

\* the card L of the record md and the description content
CardFieldsOf(L, md, content) ==
    /\ L[1] = "**Event Name:** " \o Strip(Get(md, "title", "Event"))
    /\ EmittedIff(L, "**Category:**", Strip(md.category) # "")
    /\ EmittedIff(L, "**When:**",
                  Strip(md.day) # "" \/ Strip(md.date) # "" \/ Strip(md.time) # "")
    /\ EmittedIff(L, "**Where:**", Strip(md.location) # "")
    /\ EmittedIff(L, "**Contribution:**", Strip(md.contribution) # "")
    /\ EmittedIff(L, "**Contact:**",
                  Strip(md.contact) # "" \/ DigitsOnly(md.phone) # "")
    /\ EmittedIff(L, "![Event Poster]", md.poster_url # "")
    /\ \A a, b \in 1..Len(CardLabels) :
           (a < b /\ LabelPos(L, CardLabels[a]) > 0 /\ LabelPos(L, CardLabels[b]) > 0)
               => LabelPos(L, CardLabels[a]) < LabelPos(L, CardLabels[b])

\* the card L has a Description section that holds a text: the description,
\* or a sentence in place of an empty one
DescriptionOf(L, content) ==
    /\ LabelPos(L, "**Description:**") > 0
    /\ LabelPos(L, "**Description:**") < Len(L)
    /\ L[LabelPos(L, "**Description:**") + 1] # ""
    /\ Strip(content) # "" => L[LabelPos(L, "**Description:**") + 1] = Strip(content)

\* C25: a card always has the Event Name line and a Description section,
\* which holds a placeholder sentence when the description is empty; each of
\* Category, When, Where, Contribution, Contact and Poster is there exactly
\* when its value is not empty; the fields come in that fixed order.
C25_CardFields ==
    card_text # "" =>
        /\ CardFieldsOf(SplitLines(card_text), doc_metadata, doc_content)
        /\ DescriptionOf(SplitLines(card_text), doc_content)

\* the text of a summary line after its link
AfterLink(md, text) ==
    SubSeq(text, Len(SummaryLink(md)) + 1, Len(text))

\* C26: a summary line is the title as a clickable reference followed by
\* exactly those of day, date, time, location, contribution and phone that
\* are not empty: no filler for an empty one, and none left out, the date
\* included.
C26_SummaryFields ==
    summary_text # "" =>
        /\ StartsAt(summary_text, 1, SummaryLink(doc_metadata))
        /\ ~Contains("N/A", summary_text)
        /\ \A f \in {"day", "date", "time", "location", "contribution"} :
               Strip(doc_metadata[f]) # ""
                   => Contains(Strip(doc_metadata[f]),
                               AfterLink(doc_metadata, summary_text))
        /\ DigitsOnly(doc_metadata.phone) # ""
               => Contains(DigitsOnly(doc_metadata.phone),
                           AfterLink(doc_metadata, summary_text))
        /\ (\A f \in {"day", "date", "time", "location", "contribution"} :
                Strip(doc_metadata[f]) = "") /\ DigitsOnly(doc_metadata.phone) = ""
               => AfterLink(doc_metadata, summary_text) = ""

-----------------------------------------------------------------------------
(* Properties of the metadata filter                                       *)

\* the arguments of the last search that are supplied, as a dict
Supplied ==
    [k \in (IF filter_date # "" THEN {"date"} ELSE {})
              \cup (IF filter_day # "" THEN {"day"} ELSE {})
              \cup (IF filter_location # "" THEN {"location"} ELSE {}) |->
        IF k = "date" THEN filter_date
        ELSE IF k = "day" THEN filter_day
        ELSE filter_location]

\* the filter_date texts that a format with a year parses, with the weekday
\* of their date
DatedFilters ==
    {[text |-> "November 14, 2025", day |-> "Friday"],
     [text |-> "14.11.25", day |-> "Friday"]}

\* Supplied, and the weekday of filter_date when that is a date written with
\* a year and filter_day is not supplied
SuppliedOrDerived ==
    IF filter_day = "" /\ \E df \in DatedFilters : df.text = filter_date
    THEN Supplied @@ ("day" :> (CHOOSE df \in DatedFilters : df.text = filter_date).day)
    ELSE Supplied

\* the filter cf holds one equality for each entry of the dict wanted and
\* nothing else: none, a single equality, or an OR of equalities
IsFilterOf(cf, wanted) ==
    IF DOMAIN wanted = {} THEN DOMAIN cf = {}
    ELSE IF Cardinality(DOMAIN wanted) = 1
    THEN /\ DOMAIN cf = DOMAIN wanted
         /\ \A k \in DOMAIN wanted : cf[k] = [eq |-> wanted[k]]
    ELSE /\ DOMAIN cf = {"$or"}
         /\ Len(cf["$or"]) = Cardinality(DOMAIN wanted)
         /\ \A k \in DOMAIN wanted :
                \E i \in 1..Len(cf["$or"]) : cf["$or"][i] = Equality(k, wanted[k])

\* C27 (as stated): the filter passed to retrieval is none when no filter
\* argument is supplied, a single equality when exactly one is, and an OR of
\* one equality per supplied field when more are; no equality on a field the
\* caller did not supply is added.
C27_OnlySuppliedFields == result # "" => IsFilterOf(chroma_filter, Supplied)

\* C27 (amended): the filter holds one equality per supplied field and, when
\* filter_date is a date written with a year and no filter_day is supplied,
\* one more on day for the weekday of that date; it is none, a single
\* equality or an OR of them by their number.
C27_SuppliedOrDerivedDay == result # "" => IsFilterOf(chroma_filter, SuppliedOrDerived)

\* a search called with a date written with a year and a location, and no
\* day: the filter is an OR of three equalities, one of them derived
C27_Witness ==
    /\ result # ""
    /\ filter_date = "November 14, 2025" /\ filter_day = "" /\ filter_location # ""
    /\ DOMAIN chroma_filter = {"$or"}
    /\ Len(chroma_filter["$or"]) = 3

-----------------------------------------------------------------------------
(* Properties of the merged groups                                         *)

\* the link lines of the text the last search returned, in their order
LinkLines == SelectSeq(out_lines, LAMBDA l : l.kind = "link")

\* the groups of the last search that hold the kept position i
GroupsOf(i) ==
    {g \in 1..Len(sorted_group_items) :
        \E k \in 1..Len(sorted_group_items[g].items) :
            sorted_group_items[g].items[k] = i}

\* the place of the last "(" of the title t
LastOpen(t) == CHOOSE i \in 1..Len(t) : Ch(t, i) = "(" /\ \A j \in (i + 1)..Len(t) : Ch(t, j) # "("

\* the number N of the "(N events)" that ends a merged title
TitleCount(t) == StrToInt(DigitsOnly(SubSeq(t, LastOpen(t), Len(t))))

RECURSIVE SumOfCounts(_)
SumOfCounts(lines) ==
    IF lines = <<>> THEN 0 ELSE TitleCount(lines[1].title) + SumOfCounts(Tail(lines))

\* C28: after a search that renders results the merged groups partition the
\* kept records: every kept record is in exactly one group, which is of the
\* record's own category; the counts in the group titles add up to the
\* number of kept records; and the N of "Found N event group(s)" is the
\* number of rendered links and of cache entries, and at least 1.
C28_GroupsPartition ==
    Rendered =>
        /\ \A i \in Kept :
               /\ Cardinality(GroupsOf(i)) = 1
               /\ \A g \in GroupsOf(i) : sorted_group_items[g].cat = CategoryOf[docs[i]]
        /\ \A g \in 1..Len(sorted_group_items) :
               \A k \in 1..Len(sorted_group_items[g].items) :
                   sorted_group_items[g].items[k] \in Kept
        /\ SumOfCounts(LinkLines) = Cardinality(Kept)
        /\ result = Header(Len(LinkLines))
        /\ Len(LinkLines) = Cardinality(DOMAIN EVENT_DATA_STORE)
        /\ Len(LinkLines) >= 1

\* a search rendered two groups, one of them of two records
C28_Witness ==
    /\ Rendered
    /\ Len(LinkLines) = 2
    /\ Cardinality(Kept) = 3
    /\ \E g \in 1..Len(sorted_group_items) : Len(sorted_group_items[g].items) = 2

-----------------------------------------------------------------------------
(* Properties of the persisted chat turn                                   *)

\* the assistant entry of the last history the turn yielded
LastYielded == yields[Len(yields)][Len(yields[Len(yields)])]

\* the generator is suspended at, or was closed at, a yield after which it
\* yields nothing more
AtLastYield ==
    /\ yields # <<>>
    /\ \/ route.to # "auroville_agent"
       \/ LastYielded.content.text = MsgNoResponse
       \/ IsErrorText(LastYielded.content.text)
       \/ RunStream(stream_events, response_text).yield = <<>>

\* the turn is over: the generator returned, or its consumer stopped
\* reading right after the last yield
TurnOver == pc = "done" \/ (pc = "closed" /\ AtLastYield)

\* the rows of the turn are its user message and then its assistant message
\* with the text last yielded
TurnPersisted ==
    /\ Len(chats) = 2
    /\ chats[1] = [session_id |-> request.session_id, role |-> "user",
                   content |-> request.q]
    /\ chats[2].session_id = request.session_id
    /\ chats[2].role = "assistant"
    /\ yields # <<>>
    /\ chats[2].content = LastYielded.content
    /\ \A k \in 1..Len(yields) : SubSeq(yields[k], 1, Len(history)) = history

\* C29: a chat turn with a valid session id persists, on every route, one
\* user message and then one assistant message whose text is the assistant
\* text of the last yielded history, also when the consumer stops reading
\* right after the last yield; with an empty or "null" session id nothing is
\* persisted and nothing is yielded.
C29_TurnPersistedOnce ==
    TurnOver =>
        IF request.session_id \in {"", "null"}
        THEN chats = <<>> /\ yields = <<>>
        ELSE TurnPersisted

-----------------------------------------------------------------------------
(* Properties of the loaded history                                        *)

\* the contents of the rows of the session, in the order they were saved
RECURSIVE SavedContents(_, _)
SavedContents(rows, session_id) ==
    IF rows = <<>> THEN <<>>
    ELSE (IF rows[1].session_id = session_id THEN <<rows[1].content>> ELSE <<>>)
         \o SavedContents(Tail(rows), session_id)

\* the texts of a list of [user, assistant] pairs in their order, the empty
\* slots left out
RECURSIVE PairTexts(_)
PairTexts(pairs) ==
    IF pairs = <<>> THEN <<>>
    ELSE SelectSeq(pairs[1], LAMBDA t : t # "") \o PairTexts(Tail(pairs))

\* C30: load_chat_history loses no message: whatever the order of the roles
\* of the messages saved for a session, the returned pairs hold the content
\* of every one of them, in the order they were saved, and of no message of
\* another session.
C30_NoMessageLost ==
    [][chats' = chats =>
           PairTexts(gradio_history') = SavedContents(chats, request'.session_id)]_vars

=============================================================================
